---- MODULE Spec2Model ----
(***************************************************************************)
(* web-modem: the serial command channel (SerialService), the connection   *)
(* pool (SerialManager) and the event bus (EventListener).                 *)
(*                                                                         *)
(* The repository holds three revisions of the serial service: package     *)
(* services (sendRawCommand without a deadline), and two in package modem  *)
(* (sendRawCommand with a deadline, end-of-data treated as "no data yet"): *)
(* the one with the PDU codec, called pdu here, and the later one, called  *)
(* modem.  The variable rev says which one a behaviour runs.               *)
(*                                                                         *)
(* Time is counted in units of 100 ms.  Strings are sequences of one-      *)
(* character strings.                                                      *)
(***************************************************************************)
EXTENDS Integers, Sequences, FiniteSets, TLC

\* ------------------------------------------------------------- bounds
\* number of chunks the listeners read and publish, all together
MaxEmit == 3
\* number of Scan calls
MaxScans == 2
\* characters other than white space the link delivers to one command exchange
MaxResp == 2
\* line breaks the link delivers to one command exchange
MaxBreaks == 1
\* invocations of one cancel handle
MaxCancel == 2

\* ------------------------------------------------- program constants
readTimeout == 1
errorSleep == 1
atTimeout == 10
defaultBuffer == 100

respOK == <<"O", "K">>
respError == <<"E", "R", "R", "O", "R">>
respPrompt == <<">">>

\* device paths the glob of Scan can match, in the order Scan tries them
Paths == {1, 2}
\* request-handler goroutines
Callers == {"a", "b"}
\* the channels Subscribe can make, in the order it makes them
Chans == {1, 2}
Revs == {"services", "modem", "pdu"}

\* the revisions whose sendRawCommand takes a timeout
DeadlineRevs == {"modem", "pdu"}

\* the revisions of package modem: their ListSMS trims each content twice,
\* and their session publishes through a function its maker hands to it
ModemRevs == {"modem", "pdu"}

\* what one Read of the link can deliver outside a command exchange
Unsolicited == {<<"R">>, <<"+">>}

\* what one Read of the link can deliver
Chunks == {<<"x">>, <<"O">>, <<"K">>, respPrompt, respError}

\* eof: the line break the device puts around the lines of a response
Crlf == <<"\r", "\n">>

\* the timeout of the exchange that carries the message of SendSMS
smsTimeout == 600

\* the buffer HandleWebSocket asks Subscribe for
wsBuffer == 100

\* commands sent one after the other on the link seen byte by byte
MaxCmds == 2

\* ------------------------------------------------------ pure helpers
\* strings.Contains
Contains(s, t) ==
    \E i \in 0..(Len(s) - Len(t)) : SubSeq(s, i + 1, i + Len(t)) = t

\* White space as unicode.IsSpace and the scanner of fmt have it, each character
\* with its code point: U+0009 to U+000D, U+0020, U+0085, U+00A0, U+1680.
\* (Their white space from U+2000 on cannot be written in a string here and
\* is no character of these strings.)
SpaceTable ==
    {<<"\t", 9>>, <<"\n", 10>>, <<"", 11>>, <<"\f", 12>>, <<"\r", 13>>,
     <<" ", 32>>, <<"", 133>>, <<" ", 160>>, <<" ", 5760>>}

Spaces == {e[1] : e \in SpaceTable}

IsSpace(ch) == ch \in Spaces

RECURSIVE TrimLeft(_)
TrimLeft(s) == IF s # <<>> /\ IsSpace(Head(s)) THEN TrimLeft(Tail(s)) ELSE s

RECURSIVE TrimRight(_)
TrimRight(s) ==
    IF s # <<>> /\ IsSpace(s[Len(s)]) THEN TrimRight(SubSeq(s, 1, Len(s) - 1)) ELSE s

\* strings.TrimSpace
TrimSpace(s) == TrimRight(TrimLeft(s))

\* the terminal test of sendRawCommand
IsTerminal(s) == Contains(s, respOK) \/ Contains(s, respError) \/ Contains(s, respPrompt)

\* ascending sequence of the members of a set of integers (filepath.Glob sorts)
RECURSIVE Sorted(_)
Sorted(S) ==
    IF S = {} THEN <<>>
    ELSE LET m == CHOOSE x \in S : \A y \in S : x <= y IN <<m>> \o Sorted(S \ {m})

NoResp == [resp |-> <<>>, err |-> "none"]

VARIABLES
    rev,        \* revision of the serial service
    present,    \* device paths that exist on the host
    mPool,      \* SerialManager.pool: registered paths
    mLock,      \* SerialManager.mu: "free" or the caller holding it
    portOpen,   \* path -> the serial handle of its service is open
    sLock,      \* path -> SerialService mutex: "free", "listener" or a caller
    lst,        \* path -> state of the readLoop goroutine of its service
    started,    \* path -> number of readLoop goroutines started for it
    opens,      \* path -> number of OpenPort calls made for it
    failed,     \* paths for which an open or a verification has failed
    scans,      \* number of Scan calls begun
    caller,     \* caller -> state of the request handler
    elPool,     \* EventListener.pool: registered channels
    elReaders,  \* listeners holding EventListener's read lock
    chCap,      \* channel -> capacity (0: not created)
    chBuf,      \* channel -> queued messages
    chClosed,   \* channel -> closed
    closes,     \* channel -> number of close(ch) executed
    cancels,    \* channel -> number of invocations of its cancel handle
    chGot,      \* channel -> ids <<path, n>> of the messages ever queued in it
    chMiss,     \* channel -> ids of the messages skipped because it was full
    parked,     \* sends left waiting in a goroutine of their own (none in this code)
    panicked,   \* a goroutine panicked (close of a closed channel, send on a closed channel)
    sms,        \* one run of the merge of ListSMS: the parsed records and the result
    codec,      \* one run of the text codec: the input and what it was turned into
    signal,     \* one signal query: the response of the device and the record returned
    ident,      \* one identity query: the sub-queries made and the record being filled
    wire,       \* one link seen byte by byte: what the device has still to send, and the exchange
    ws          \* channel -> state of the HandleWebSocket that subscribed it

busVars == <<elPool, elReaders, chCap, chBuf, chClosed, closes, cancels, chGot, chMiss, parked,
            panicked>>
poolVars == <<present, mPool, mLock, portOpen, started, opens, failed, scans>>
\* what no operation of the pool, the channel or the bus touches
env == <<rev, sms, codec, signal, ident, wire, ws>>
vars == <<env, poolVars, sLock, lst, caller, busVars>>

IdleCaller ==
    [pc |-> "idle", path |-> 0, cont |-> "none", resp |-> <<>>, elapsed |-> 0,
     ret |-> NoResp, todo |-> <<>>, cands |-> {}, pool0 |-> {}, tried |-> {}]

\* bus: the session has a broadcast function (s.broadcast != nil in package
\* modem; the listener of package services calls the event listener itself)
OffListener ==
    [pc |-> "off", chunk |-> <<>>, err |-> FALSE, n |-> 0, todo |-> {}, bus |-> TRUE]

\* no listing has been merged, nothing has been encoded or decoded
NoSms == [parts |-> <<>>, order |-> "asc", done |-> FALSE, result |-> <<>>]
NoCodec == [stage |-> "idle", text |-> <<>>, hex |-> <<>>, n |-> 0,
            out |-> [text |-> <<>>, ref |-> 0, total |-> 0, seq |-> 0],
            parts |-> <<>>, result |-> <<>>, err |-> "none"]

\* no signal query made yet
NoSignal == [stage |-> "idle", rev |-> "services", resp |-> <<>>, failed |-> FALSE,
             out |-> [err |-> "none", RSSI |-> 0, Quality |-> 0, DBM |-> <<>>]]

\* the fields of ModemInfo that GetModemInfo queries the device for
MapFields == {"Manufacturer", "Model", "IMEI", "IMSI"}
Fields == MapFields \cup {"Operator", "PhoneNumber"}

\* no identity query made yet
NoIdent == [stage |-> "idle", asked |-> {},
            got |-> [f \in Fields |-> [resp |-> <<>>, err |-> "unasked"]],
            info |-> [f \in Fields |-> <<>>], err |-> "none"]

\* no command sent on the link yet, nothing on its way from the device
NoWire == [pc |-> "idle", cmd |-> 0, dev |-> <<>>, buf |-> <<>>, resp |-> <<>>,
           elapsed |-> 0, ret |-> NoResp]

\* no HandleWebSocket has run
NoWs == [ch \in Chans |-> [pc |-> "none", connOk |-> TRUE]]

Init ==
    /\ rev \in Revs
    /\ present = {}
    /\ mPool = {}
    /\ mLock = "free"
    /\ portOpen = [p \in Paths |-> FALSE]
    /\ sLock = [p \in Paths |-> "free"]
    /\ lst = [p \in Paths |-> OffListener]
    /\ started = [p \in Paths |-> 0]
    /\ opens = [p \in Paths |-> 0]
    /\ failed = {}
    /\ scans = 0
    /\ caller = [c \in Callers |-> IdleCaller]
    /\ elPool = {}
    /\ elReaders = {}
    /\ chCap = [ch \in Chans |-> 0]
    /\ chBuf = [ch \in Chans |-> <<>>]
    /\ chClosed = [ch \in Chans |-> FALSE]
    /\ closes = [ch \in Chans |-> 0]
    /\ cancels = [ch \in Chans |-> 0]
    /\ chGot = [ch \in Chans |-> {}]
    /\ chMiss = [ch \in Chans |-> {}]
    /\ parked = {}
    /\ panicked = FALSE
    /\ sms = NoSms
    /\ codec = NoCodec
    /\ signal = NoSignal
    /\ ident = NoIdent
    /\ wire = NoWire
    /\ ws = NoWs

\* ------------------------------------------------- command exchange
Path(c) == caller[c].path

\* a return of sendRawCommand that leaves the session mutex locked
ReturnLocked(c, r) ==
    /\ UNCHANGED sLock
    /\ caller' = [caller EXCEPT ![c].pc = "cmd_done", ![c].ret = r,
                                ![c].resp = <<>>, ![c].elapsed = 0]

\* every return of sendRawCommand: the deferred s.Unlock(), then the result
Return(c, r) ==
    /\ sLock' = [sLock EXCEPT ![Path(c)] = "free"]
    /\ caller' = [caller EXCEPT ![c].pc = "cmd_done", ![c].ret = r,
                                ![c].resp = <<>>, ![c].elapsed = 0]

\* sendRawCommand: s.Lock()
CmdLock(c) ==
    /\ caller[c].pc = "cmd_lock"
    /\ sLock[Path(c)] = "free"
    /\ sLock' = [sLock EXCEPT ![Path(c)] = c]
    /\ caller' = [caller EXCEPT ![c].pc = "cmd_write"]
    /\ UNCHANGED <<env, poolVars, lst, busVars>>

\* sendRawCommand: Flush, then Write of command + suffix
CmdWrite(c) ==
    /\ caller[c].pc = "cmd_write"
    /\ \E ok \in BOOLEAN :
         IF ok
         THEN /\ caller' = [caller EXCEPT ![c].pc = "cmd_loop", ![c].resp = <<>>,
                                         ![c].elapsed = 0]
              /\ UNCHANGED sLock
         ELSE Return(c, [resp |-> <<>>, err |-> "io"])
    /\ UNCHANGED <<env, poolVars, lst, busVars>>

\* the timeout sendRawCommand is called with: SendATCommand gives 1 s, SendSMS
\* gives 60 s for the exchange of the message
Timeout(c) == IF caller[c].cont = "payload" THEN smsTimeout ELSE atTimeout

\* the deadline test at the head of the read loop (package modem only)
DeadlinePassed(c) == rev \in DeadlineRevs /\ caller[c].elapsed > Timeout(c)

\* head of the read loop: give up past the deadline, else call Read
CmdLoop(c) ==
    /\ caller[c].pc = "cmd_loop"
    /\ IF DeadlinePassed(c)
       THEN Return(c, [resp |-> <<>>, err |-> "timeout"])
       ELSE /\ caller' = [caller EXCEPT ![c].pc = "cmd_read"]
            /\ UNCHANGED sLock
    /\ UNCHANGED <<env, poolVars, lst, busVars>>

\* the number of characters of resp that are not white space
Chars(resp) == Len(SelectSeq(resp, LAMBDA ch : ~IsSpace(ch)))

\* resp.Write(buf[:n])
Accumulate(resp, chunk) == resp \o chunk

\* a return of the response as accumulated, in every revision
TerminalRaw(str) == str

\* what revision r returns for the accumulated response str that holds a
\* terminal token: package modem trims it
Received(r, str) == IF r \in DeadlineRevs THEN TrimSpace(str) ELSE str

\* the value returned for a response that holds a terminal token
Terminal(str) == Received(rev, str)

\* time.Since(start) after dt more has passed
Tick(e, dt) == e + dt

\* Read returned the n > 0 bytes of chunk after dt of waiting: they are added
\* to the response, which is returned if it now holds a terminal token
ReadChunk(c, chunk, dt) ==
    LET str == Accumulate(caller[c].resp, chunk) IN
    IF IsTerminal(str)
    THEN Return(c, [resp |-> Terminal(str), err |-> "none"])
    ELSE /\ caller' = [caller EXCEPT ![c].pc = "cmd_loop", ![c].resp = str,
                                    ![c].elapsed = Tick(@, dt)]
         /\ UNCHANGED sLock

\* Read returned n > 0 bytes; the link delivers them only to an exchange
\* that has accumulated fewer than MaxResp characters
CmdReadData(c) ==
    /\ caller[c].pc = "cmd_read"
    /\ Chars(caller[c].resp) < MaxResp
    /\ \E chunk \in Chunks, dt \in 0..readTimeout : ReadChunk(c, chunk, dt)
    /\ UNCHANGED <<env, poolVars, lst, busVars>>

\* Read returned a line break of the response
CmdReadBlank(c) ==
    /\ caller[c].pc = "cmd_read"
    /\ Chars(caller[c].resp) < MaxResp
    /\ Len(caller[c].resp) - Chars(caller[c].resp) < Len(Crlf) * MaxBreaks
    /\ \E dt \in 0..readTimeout : ReadChunk(c, Crlf, dt)
    /\ UNCHANGED <<env, poolVars, lst, busVars>>

\* Read returned 0 bytes and io.EOF: the read timeout passed with no data
CmdReadEOF(c) ==
    /\ caller[c].pc = "cmd_read"
    /\ IF rev \in DeadlineRevs
       THEN /\ caller' = [caller EXCEPT ![c].pc = "cmd_sleep",
                                       ![c].elapsed = Tick(@, readTimeout)]
            /\ UNCHANGED sLock
       ELSE IF Len(caller[c].resp) > 0
            THEN Return(c, [resp |-> caller[c].resp, err |-> "none"])
            ELSE Return(c, [resp |-> <<>>, err |-> "EOF"])
    /\ UNCHANGED <<env, poolVars, lst, busVars>>

\* the response returned when Read gives an error other than io.EOF and
\* something has been accumulated: the pdu revision trims it
Partial(resp) == IF rev = "pdu" THEN TrimSpace(resp) ELSE resp

\* a link failure that takes the session out of the registry
CmdReadErrEvict(c) ==
    /\ caller[c].pc = "cmd_read"
    /\ IF Len(caller[c].resp) > 0
       THEN Return(c, [resp |-> Partial(caller[c].resp), err |-> "none"])
       ELSE Return(c, [resp |-> <<>>, err |-> "io"])
    /\ mPool' = mPool \ {Path(c)}
    /\ UNCHANGED <<env, present, mLock, portOpen, started, opens, failed, scans, lst, busVars>>

\* Read returned an error other than io.EOF
CmdReadErr(c) ==
    /\ caller[c].pc = "cmd_read"
    /\ IF Len(caller[c].resp) > 0
       THEN Return(c, [resp |-> Partial(caller[c].resp), err |-> "none"])
       ELSE Return(c, [resp |-> <<>>, err |-> "io"])
    /\ UNCHANGED <<env, poolVars, lst, busVars>>

\* time.Sleep(errorSleep) after io.EOF (package modem)
CmdSleep(c) ==
    /\ caller[c].pc = "cmd_sleep"
    /\ caller' = [caller EXCEPT ![c].pc = "cmd_loop", ![c].elapsed = Tick(@, errorSleep)]
    /\ UNCHANGED <<env, poolVars, sLock, lst, busVars>>

\* ---------------------------------------------------- SerialManager
Inc(f, p) == [f EXCEPT ![p] = @ + 1]

\* a device node appears on the host
Attach(p) ==
    /\ p \notin present
    /\ present' = present \cup {p}
    /\ UNCHANGED <<env, mPool, mLock, portOpen, started, opens, failed, scans,
                   sLock, lst, caller, busVars>>

\* a Scan that does not take m.mu
ScanBeginUnlocked(c) ==
    /\ caller[c].pc = "idle"
    /\ scans < MaxScans
    /\ mLock' = c
    /\ scans' = scans + 1
    /\ caller' = [caller EXCEPT ![c] =
          [IdleCaller EXCEPT !.pc = "scan", !.todo = Sorted(present),
                             !.cands = present, !.pool0 = mPool]]
    /\ UNCHANGED <<env, present, mPool, portOpen, started, opens, failed,
                   sLock, lst, busVars>>

\* Scan: m.mu.Lock(), then the two globs
ScanBegin(c) ==
    /\ caller[c].pc = "idle"
    /\ mLock = "free"
    /\ scans < MaxScans
    /\ mLock' = c
    /\ scans' = scans + 1
    /\ caller' = [caller EXCEPT ![c] =
          [IdleCaller EXCEPT !.pc = "scan", !.todo = Sorted(present),
                             !.cands = present, !.pool0 = mPool]]
    /\ UNCHANGED <<env, present, mPool, portOpen, started, opens, failed,
                   sLock, lst, busVars>>

\* a candidate loop without the test
ExistsNever(p) == FALSE

\* a candidate loop that also passes over the paths that failed before
ExistsOrFailed(p) == p \in mPool \/ p \in failed

\* the test of the candidate loop: is the path already in m.pool
Exists(p) == p \in mPool

\* candidate loop: a path already in the pool is passed over
ScanSkip(c) ==
    /\ caller[c].pc = "scan"
    /\ caller[c].todo # <<>>
    /\ Exists(Head(caller[c].todo))
    /\ caller' = [caller EXCEPT ![c].todo = Tail(@)]
    /\ UNCHANGED <<env, poolVars, sLock, lst, busVars>>

\* candidate loop, NewSerialService: serial.OpenPort fails, the path is skipped
ScanOpenFail(c) ==
    /\ caller[c].pc = "scan"
    /\ caller[c].todo # <<>>
    /\ LET p == Head(caller[c].todo) IN
         /\ ~Exists(p)
         /\ opens' = Inc(opens, p)
         /\ failed' = failed \cup {p}
         /\ caller' = [caller EXCEPT ![c].todo = Tail(@), ![c].tried = @ \cup {p}]
    /\ UNCHANGED <<env, present, mPool, mLock, portOpen, started, scans,
                   sLock, lst, busVars>>

\* candidate loop, NewSerialService: serial.OpenPort succeeds, check() begins
ScanOpenOk(c) ==
    /\ caller[c].pc = "scan"
    /\ caller[c].todo # <<>>
    /\ LET p == Head(caller[c].todo) IN
         /\ ~Exists(p)
         /\ opens' = Inc(opens, p)
         /\ portOpen' = [portOpen EXCEPT ![p] = TRUE]
         /\ sLock' = [sLock EXCEPT ![p] = "free"]
         /\ caller' = [caller EXCEPT ![c].todo = Tail(@), ![c].tried = @ \cup {p},
                                     ![c].path = p, ![c].pc = "cmd_lock",
                                     ![c].cont = "check"]
    /\ UNCHANGED <<env, present, mPool, mLock, started, failed, scans, lst, busVars>>

\* a check() that takes any answer that came without error
CheckPassedAnyAnswer(r) == r.err = "none"

\* check(): the answer to AT came without error and contains OK
CheckPassed(r) == r.err = "none" /\ Contains(r.resp, respOK)

\* a creation that starts the listener as soon as check() has passed
CheckOkListening(c) ==
    /\ caller[c].pc = "cmd_done"
    /\ caller[c].cont = "check"
    /\ CheckPassed(caller[c].ret)
    /\ mPool' = mPool \cup {Path(c)}
    /\ lst' = [lst EXCEPT ![Path(c)] = [OffListener EXCEPT !.pc = "lock"]]
    /\ started' = Inc(started, Path(c))
    /\ caller' = [caller EXCEPT ![c].pc = "cmd_lock", ![c].cont = "echo"]
    /\ UNCHANGED <<env, present, mLock, portOpen, opens, failed, scans, sLock, busVars>>

\* check() passed: NewSerialService returns the service, Scan puts it in
\* m.pool and calls Start, which sends ATE0
CheckOk(c) ==
    /\ caller[c].pc = "cmd_done"
    /\ caller[c].cont = "check"
    /\ CheckPassed(caller[c].ret)
    /\ mPool' = mPool \cup {Path(c)}
    /\ caller' = [caller EXCEPT ![c].pc = "cmd_lock", ![c].cont = "echo"]
    /\ UNCHANGED <<env, present, mLock, portOpen, started, opens, failed, scans,
                   sLock, lst, busVars>>

\* check() failed: port.Close(), NewSerialService returns the error, Scan
\* goes on to the next candidate
CheckFail(c) ==
    /\ caller[c].pc = "cmd_done"
    /\ caller[c].cont = "check"
    /\ ~CheckPassed(caller[c].ret)
    /\ portOpen' = [portOpen EXCEPT ![Path(c)] = FALSE]
    /\ failed' = failed \cup {Path(c)}
    /\ caller' = [caller EXCEPT ![c].pc = "scan", ![c].cont = "none", ![c].path = 0,
                                ![c].ret = NoResp]
    /\ UNCHANGED <<env, present, mPool, mLock, started, opens, scans, sLock, lst, busVars>>

\* Start: ATE0 returned (result ignored), AT+CMGF=1 is sent
EchoDone(c) ==
    /\ caller[c].pc = "cmd_done"
    /\ caller[c].cont = "echo"
    /\ caller' = [caller EXCEPT ![c].pc = "cmd_lock", ![c].cont = "mode", ![c].ret = NoResp]
    /\ UNCHANGED <<env, poolVars, sLock, lst, busVars>>

\* Start: AT+CMGF=1 returned (result ignored), go s.readLoop(); Scan goes on
\* to the next candidate
ModeDone(c) ==
    /\ caller[c].pc = "cmd_done"
    /\ caller[c].cont = "mode"
    /\ lst' = [lst EXCEPT ![Path(c)] = [OffListener EXCEPT !.pc = "lock"]]
    /\ started' = Inc(started, Path(c))
    /\ caller' = [caller EXCEPT ![c].pc = "scan", ![c].cont = "none", ![c].path = 0,
                                ![c].ret = NoResp]
    /\ UNCHANGED <<env, present, mPool, mLock, portOpen, opens, failed, scans,
                   sLock, busVars>>

\* Scan: no candidate left, the result list is built and the deferred
\* m.mu.Unlock() runs
ScanEnd(c) ==
    /\ caller[c].pc = "scan"
    /\ caller[c].todo = <<>>
    /\ mLock' = "free"
    /\ caller' = [caller EXCEPT ![c] = IdleCaller]
    /\ UNCHANGED <<env, present, mPool, portOpen, started, opens, failed, scans,
                   sLock, lst, busVars>>

\* a GetService that opens a path it does not find
GetServiceReconnect(c) ==
    /\ caller[c].pc = "idle"
    /\ mLock = "free"
    /\ \E name \in Paths :
         /\ caller' = [caller EXCEPT ![c] =
               [IdleCaller EXCEPT !.pc = "got", !.path = name]]
         /\ mPool' = mPool \cup {name}
         /\ opens' = IF name \in mPool THEN opens ELSE Inc(opens, name)
         /\ portOpen' = [portOpen EXCEPT ![name] = TRUE]
    /\ UNCHANGED <<env, present, mLock, started, failed, scans, sLock, lst, busVars>>

\* GetService(name), all of it under m.mu
GetService(c) ==
    /\ caller[c].pc = "idle"
    /\ mLock = "free"
    /\ \E name \in Paths :
         caller' = [caller EXCEPT ![c] =
            [IdleCaller EXCEPT !.pc = "got", !.path = name,
                !.ret = [resp |-> <<>>,
                         err |-> IF name \in mPool THEN "none" ELSE "not connected"]]]
    /\ UNCHANGED <<env, poolVars, sLock, lst, busVars>>

\* handlers.SendATCommand: the service was found, svc.SendATCommand is called
HandlerSend(c) ==
    /\ caller[c].pc = "got"
    /\ caller[c].ret.err = "none"
    /\ caller' = [caller EXCEPT ![c].pc = "cmd_lock", ![c].cont = "api"]
    /\ UNCHANGED <<env, poolVars, sLock, lst, busVars>>

\* handlers.getService: the lookup failed, the handler answers with the error
HandlerReject(c) ==
    /\ caller[c].pc = "got"
    /\ caller[c].ret.err # "none"
    /\ caller' = [caller EXCEPT ![c] = IdleCaller]
    /\ UNCHANGED <<env, poolVars, sLock, lst, busVars>>

\* handlers.SendATCommand: the exchange returned, the handler answers
HandlerDone(c) ==
    /\ caller[c].pc = "cmd_done"
    /\ caller[c].cont = "api"
    /\ caller' = [caller EXCEPT ![c] = IdleCaller]
    /\ UNCHANGED <<env, poolVars, sLock, lst, busVars>>

\* handlers.SendSMS: the service was found, svc.SendSMS sends AT+CMGS
SendSMS(c) ==
    /\ caller[c].pc = "got"
    /\ caller[c].ret.err = "none"
    /\ \E encoded \in IF rev = "pdu" THEN BOOLEAN ELSE {TRUE} :
         caller' = IF encoded
                   THEN [caller EXCEPT ![c].pc = "cmd_lock", ![c].cont = "submit"]
                   ELSE [caller EXCEPT ![c].pc = "sms_done",
                                       ![c].ret = [resp |-> <<>>, err |-> "pdu"]]
    /\ UNCHANGED <<env, poolVars, sLock, lst, busVars>>

\* the terminal token of a response: the error token, else the prompt, else
\* none of the two
Token(resp) ==
    IF Contains(resp, respError) THEN respError
    ELSE IF Contains(resp, respPrompt) THEN respPrompt ELSE <<>>

\* SendSMS: AT+CMGS returned; with an error SendSMS returns it, with anything
\* else it drops the response and calls sendRawCommand for the message and
\* Ctrl+Z (of the dropped response the token it held is kept on record)
SendSMSSubmitted(c) ==
    /\ caller[c].pc = "cmd_done"
    /\ caller[c].cont = "submit"
    /\ IF caller[c].ret.err # "none"
       THEN caller' = [caller EXCEPT ![c].pc = "sms_done", ![c].cont = "none"]
       ELSE caller' = [caller EXCEPT ![c].pc = "cmd_lock", ![c].cont = "payload",
                                     ![c].ret.resp = Token(@)]
    /\ UNCHANGED <<env, poolVars, sLock, lst, busVars>>

\* SendSMS: the exchange of the message returned, SendSMS drops the response
\* and returns the error
SendSMSReturn(c) ==
    /\ caller[c].pc = "cmd_done"
    /\ caller[c].cont = "payload"
    /\ caller' = [caller EXCEPT ![c].pc = "sms_done", ![c].ret.resp = <<>>]
    /\ UNCHANGED <<env, poolVars, sLock, lst, busVars>>

\* handlers.SendSMS: the handler answers "sent" or with the error
SendSMSAnswer(c) ==
    /\ caller[c].pc = "sms_done"
    /\ caller' = [caller EXCEPT ![c] = IdleCaller]
    /\ UNCHANGED <<env, poolVars, sLock, lst, busVars>>

\* ---------------------------------------------------- EventListener
\* buffer sizes handed to Subscribe
SubBuffers == {0, 1}

\* Subscribe: the capacity of the channel it makes
Capacity(buffer) == IF buffer <= 0 THEN defaultBuffer ELSE buffer

\* Subscribe(buffer): make the channel and, under el.Lock(), put it in el.pool
Subscribe(buffer) ==
    /\ elReaders = {}
    /\ \E ch \in Chans :
         /\ chCap[ch] = 0
         /\ \A k \in Chans : k < ch => chCap[k] # 0
         /\ chCap' = [chCap EXCEPT ![ch] = Capacity(buffer)]
         /\ elPool' = elPool \cup {ch}
    /\ UNCHANGED <<env, poolVars, sLock, lst, caller, elReaders, chBuf, chClosed,
                   closes, cancels, chGot, chMiss, parked, panicked>>

\* close(ch): closing a closed channel panics
Close(ch) ==
    /\ closes' = Inc(closes, ch)
    /\ chClosed' = [chClosed EXCEPT ![ch] = TRUE]
    /\ panicked' = (panicked \/ chClosed[ch])

\* a cancel function without the membership test
CancelUnguarded(ch) ==
    /\ chCap[ch] # 0
    /\ cancels[ch] < MaxCancel
    /\ elReaders = {}
    /\ cancels' = Inc(cancels, ch)
    /\ elPool' = elPool \ {ch}
    /\ Close(ch)
    /\ UNCHANGED <<env, poolVars, sLock, lst, caller, elReaders, chCap, chBuf,
                   chGot, chMiss, parked>>

\* the cancel function Subscribe returned for ch, under el.Lock()
Cancel(ch) ==
    /\ chCap[ch] # 0
    /\ cancels[ch] < MaxCancel
    /\ elReaders = {}
    /\ cancels' = Inc(cancels, ch)
    /\ IF ch \in elPool
       THEN /\ elPool' = elPool \ {ch}
            /\ Close(ch)
       ELSE UNCHANGED <<elPool, closes, chClosed, panicked>>
    /\ UNCHANGED <<env, poolVars, sLock, lst, caller, elReaders, chCap, chBuf,
                   chGot, chMiss, parked>>

\* the subscriber takes the next message out of its channel
Receive(ch) ==
    /\ chBuf[ch] # <<>>
    /\ chBuf' = [chBuf EXCEPT ![ch] = Tail(@)]
    /\ UNCHANGED <<env, poolVars, sLock, lst, caller, elPool, elReaders, chCap,
                   chClosed, closes, cancels, chGot, chMiss, parked, panicked>>

\* ---------------------------------------------------------- readLoop
\* s.name
Name(p) == <<"tty", IF p = 1 THEN "1" ELSE "2">>

\* fmt.Sprintf("[%s] %s", s.name, string(buf[:n]))
Format(p, chunk) == <<"[">> \o Name(p) \o <<"]", " ">> \o chunk

\* the message the listener of p is publishing; id is its emission number
Msg(p) == [id |-> <<p, lst[p].n>>, text |-> Format(p, lst[p].chunk)]

\* readLoop that reads without taking the session mutex
ListenerLockFree(p) ==
    /\ lst[p].pc = "lock"
    /\ lst' = [lst EXCEPT ![p].pc = "read"]
    /\ UNCHANGED <<env, poolVars, sLock, caller, busVars>>

\* readLoop: s.Lock()
ListenerLock(p) ==
    /\ lst[p].pc = "lock"
    /\ sLock[p] = "free"
    /\ sLock' = [sLock EXCEPT ![p] = "listener"]
    /\ lst' = [lst EXCEPT ![p].pc = "read"]
    /\ UNCHANGED <<env, poolVars, caller, busVars>>

\* number of chunks the listeners have read so far
RECURSIVE SumN(_)
SumN(S) == IF S = {} THEN 0 ELSE LET p == CHOOSE x \in S : TRUE IN lst[p].n + SumN(S \ {p})

Emitted == SumN(Paths)

\* readLoop: Read returned n > 0 bytes, one of the chunks in S; s.Unlock();
\* the chunk goes to the broadcast function if the session has one, else the
\* loop goes on without it
ReadData(p, S) ==
    /\ lst[p].pc = "read"
    /\ portOpen[p]
    /\ Emitted < MaxEmit
    /\ \E chunk \in S :
         lst' = IF lst[p].bus
                THEN [lst EXCEPT ![p].pc = "bcast", ![p].chunk = chunk, ![p].err = FALSE,
                                 ![p].n = @ + 1]
                ELSE [lst EXCEPT ![p].pc = "lock", ![p].chunk = <<>>, ![p].err = FALSE,
                                 ![p].n = @ + 1]
    /\ sLock' = [sLock EXCEPT ![p] = "free"]
    /\ UNCHANGED <<env, poolVars, caller, busVars>>

ListenerReadData(p) == ReadData(p, Unsolicited)

\* the same over a link whose every chunk is the same notification
ListenerReadRing(p) == ReadData(p, {<<"R">>})

\* readLoop: Read returned no bytes and an error (io.EOF when the read
\* timeout passed); s.Unlock()
ListenerReadErr(p) ==
    /\ lst[p].pc = "read"
    /\ lst' = [lst EXCEPT ![p].pc = "sleep", ![p].chunk = <<>>, ![p].err = TRUE]
    /\ sLock' = [sLock EXCEPT ![p] = "free"]
    /\ UNCHANGED <<env, poolVars, caller, busVars>>

\* a readLoop that returns after a read error
ListenerGiveUp(p) ==
    /\ lst[p].pc = "sleep"
    /\ lst' = [lst EXCEPT ![p] = OffListener]
    /\ UNCHANGED <<env, poolVars, sLock, caller, busVars>>

\* readLoop: time.Sleep(errorSleep)
ListenerSleep(p) ==
    /\ lst[p].pc = "sleep"
    /\ lst' = [lst EXCEPT ![p].pc = "lock", ![p].err = FALSE]
    /\ UNCHANGED <<env, poolVars, sLock, caller, busVars>>

\* a Broadcast that ranges over el.pool without el.RLock()
BroadcastBeginLockFree(p) ==
    /\ lst[p].pc = "bcast"
    /\ lst' = [lst EXCEPT ![p].pc = "send", ![p].todo = elPool]
    /\ UNCHANGED <<env, poolVars, sLock, caller, elPool, elReaders, chCap, chBuf, chClosed,
                   closes, cancels, chGot, chMiss, parked, panicked>>

\* Broadcast: el.RLock(), the range over el.pool begins
BroadcastBegin(p) ==
    /\ lst[p].pc = "bcast"
    /\ elReaders' = elReaders \cup {p}
    /\ lst' = [lst EXCEPT ![p].pc = "send", ![p].todo = elPool]
    /\ UNCHANGED <<env, poolVars, sLock, caller, elPool, chCap, chBuf, chClosed,
                   closes, cancels, chGot, chMiss, parked, panicked>>

\* select { case ch <- msg: default: }
TrySend(ch, m) ==
    IF chClosed[ch]
    THEN /\ panicked' = TRUE
         /\ UNCHANGED <<chBuf, chGot, chMiss>>
    ELSE IF Len(chBuf[ch]) < chCap[ch]
    THEN /\ chBuf' = [chBuf EXCEPT ![ch] = Append(@, m)]
         /\ chGot' = [chGot EXCEPT ![ch] = @ \cup {m.id}]
         /\ UNCHANGED <<chMiss, panicked>>
    ELSE /\ chMiss' = [chMiss EXCEPT ![ch] = @ \cup {m.id}]
         /\ UNCHANGED <<chBuf, chGot, panicked>>

\* the same iteration with a plain send, retried until the channel takes it
SendToRetry(p, ch) ==
    /\ TrySend(ch, Msg(p))
    /\ lst' = [lst EXCEPT ![p].todo = IF Len(chBuf[ch]) < chCap[ch] THEN @ \ {ch} ELSE @]
    /\ UNCHANGED parked

\* the same iteration with a blocking send: ch <- msg outside any select
SendToBlocking(p, ch) ==
    /\ Len(chBuf[ch]) < chCap[ch]
    /\ TrySend(ch, Msg(p))
    /\ lst' = [lst EXCEPT ![p].todo = @ \ {ch}]
    /\ UNCHANGED parked

\* the same iteration with the send to a full channel left to a goroutine
\* of its own, which delivers when the channel has room
SendToSpawn(p, ch) ==
    \/ /\ Len(chBuf[ch]) < chCap[ch]
       /\ TrySend(ch, Msg(p))
       /\ lst' = [lst EXCEPT ![p].todo = @ \ {ch}]
       /\ UNCHANGED parked
    \/ /\ Len(chBuf[ch]) >= chCap[ch]
       /\ parked' = parked \cup {<<ch, Msg(p)>>}
       /\ lst' = [lst EXCEPT ![p].todo = @ \ {ch}]
       /\ UNCHANGED <<chBuf, chGot, chMiss, panicked>>
    \/ /\ \E e \in parked :
            /\ TrySend(e[1], e[2])
            /\ Len(chBuf[e[1]]) < chCap[e[1]]
            /\ parked' = parked \ {e}
       /\ UNCHANGED lst

\* Broadcast: the iteration of the range over el.pool that reaches ch
SendTo(p, ch) ==
    /\ TrySend(ch, Msg(p))
    /\ lst' = [lst EXCEPT ![p].todo = @ \ {ch}]
    /\ UNCHANGED parked

\* Broadcast: one iteration of the range over el.pool
BroadcastSend(p) ==
    /\ lst[p].pc = "send"
    /\ \E ch \in lst[p].todo : SendTo(p, ch)
    /\ UNCHANGED <<env, poolVars, sLock, caller, elPool, elReaders, chCap, chClosed,
                   closes, cancels>>

\* Broadcast: the range is over, the deferred el.RUnlock() runs; the
\* listener goes back to the head of its loop
BroadcastEnd(p) ==
    /\ lst[p].pc = "send"
    /\ lst[p].todo = {}
    /\ elReaders' = elReaders \ {p}
    /\ lst' = [lst EXCEPT ![p].pc = "lock", ![p].chunk = <<>>]
    /\ UNCHANGED <<env, poolVars, sLock, caller, elPool, chCap, chBuf, chClosed,
                   closes, cancels, chGot, chMiss, parked, panicked>>

\* ------------------------------------------------------ specification
Next ==
    \/ \E p \in Paths : Attach(p)
    \/ \E c \in Callers : ScanBegin(c)
    \/ \E c \in Callers : ScanSkip(c)
    \/ \E c \in Callers : ScanOpenFail(c)
    \/ \E c \in Callers : ScanOpenOk(c)
    \/ \E c \in Callers : CheckOk(c)
    \/ \E c \in Callers : CheckFail(c)
    \/ \E c \in Callers : EchoDone(c)
    \/ \E c \in Callers : ModeDone(c)
    \/ \E c \in Callers : ScanEnd(c)
    \/ \E c \in Callers : GetService(c)
    \/ \E c \in Callers : HandlerSend(c)
    \/ \E c \in Callers : HandlerReject(c)
    \/ \E c \in Callers : HandlerDone(c)
    \/ \E c \in Callers : CmdLock(c)
    \/ \E c \in Callers : CmdWrite(c)
    \/ \E c \in Callers : CmdLoop(c)
    \/ \E c \in Callers : CmdReadData(c)
    \/ \E c \in Callers : CmdReadEOF(c)
    \/ \E c \in Callers : CmdReadErr(c)
    \/ \E c \in Callers : CmdSleep(c)
    \/ \E p \in Paths : ListenerLock(p)
    \/ \E p \in Paths : ListenerReadData(p)
    \/ \E p \in Paths : ListenerReadErr(p)
    \/ \E p \in Paths : ListenerSleep(p)
    \/ \E p \in Paths : BroadcastBegin(p)
    \/ \E p \in Paths : BroadcastSend(p)
    \/ \E p \in Paths : BroadcastEnd(p)
    \/ \E b \in SubBuffers : Subscribe(b)
    \/ \E ch \in Chans : Cancel(ch)
    \/ \E ch \in Chans : Receive(ch)

Spec == Init /\ [][Next]_vars

\* The state after Scan has opened, verified and started the sessions of the
\* paths in S, every handler being idle again.
ActiveOn(S, B) ==
    /\ rev \in Revs
    /\ present = S
    /\ mPool = S
    /\ mLock = "free"
    /\ portOpen = [p \in Paths |-> p \in S]
    /\ sLock = [p \in Paths |-> "free"]
    /\ \E b \in B :
         lst = [p \in Paths |-> IF p \in S THEN [OffListener EXCEPT !.pc = "lock", !.bus = b]
                                           ELSE OffListener]
    /\ started = [p \in Paths |-> IF p \in S THEN 1 ELSE 0]
    /\ opens = [p \in Paths |-> IF p \in S THEN 1 ELSE 0]
    /\ failed = {}
    /\ scans = 1
    /\ caller = [c \in Callers |-> IdleCaller]
    /\ elPool = {}
    /\ elReaders = {}
    /\ chCap = [ch \in Chans |-> 0]
    /\ chBuf = [ch \in Chans |-> <<>>]
    /\ chClosed = [ch \in Chans |-> FALSE]
    /\ closes = [ch \in Chans |-> 0]
    /\ cancels = [ch \in Chans |-> 0]
    /\ chGot = [ch \in Chans |-> {}]
    /\ chMiss = [ch \in Chans |-> {}]
    /\ parked = {}
    /\ panicked = FALSE
    /\ sms = NoSms
    /\ codec = NoCodec
    /\ signal = NoSignal
    /\ ident = NoIdent
    /\ wire = NoWire
    /\ ws = NoWs

Active(S) == ActiveOn(S, {TRUE})

\* The event bus under the listeners of two active sessions.
InitBus == Active(Paths) /\ rev = "services"

NextBus ==
    \/ \E p \in Paths : ListenerLock(p)
    \/ \E p \in Paths : ListenerReadRing(p)
    \/ \E p \in Paths : BroadcastBegin(p)
    \/ \E p \in Paths : BroadcastSend(p)
    \/ \E p \in Paths : BroadcastEnd(p)
    \/ \E b \in SubBuffers : Subscribe(b)
    \/ \E ch \in Chans : Cancel(ch)
    \/ \E ch \in Chans : Receive(ch)

SpecBus == InitBus /\ [][NextBus]_vars

\* The command channel of one active session: the request handlers' command
\* exchanges and the listener, nobody subscribed to the event bus.
InitChan == Active({1})

NextChan ==
    \/ \E c \in Callers : GetService(c)
    \/ \E c \in Callers : HandlerSend(c)
    \/ \E c \in Callers : HandlerReject(c)
    \/ \E c \in Callers : HandlerDone(c)
    \/ \E c \in Callers : CmdLock(c)
    \/ \E c \in Callers : CmdWrite(c)
    \/ \E c \in Callers : CmdLoop(c)
    \/ \E c \in Callers : CmdReadData(c)
    \/ \E c \in Callers : CmdReadEOF(c)
    \/ \E c \in Callers : CmdReadErr(c)
    \/ \E c \in Callers : CmdSleep(c)
    \/ \E p \in Paths : ListenerLock(p)
    \/ \E p \in Paths : ListenerReadData(p)
    \/ \E p \in Paths : ListenerReadErr(p)
    \/ \E p \in Paths : ListenerSleep(p)
    \/ \E p \in Paths : BroadcastBegin(p)
    \/ \E p \in Paths : BroadcastEnd(p)

SpecChan == InitChan /\ [][NextChan]_vars

\* The connection pool from the start of the process: Scan and GetService.
\* No handler sends a command to a registered session here, so nothing
\* contends with the listeners Scan starts, and their loops are left out.
NextPool ==
    \/ \E p \in Paths : Attach(p)
    \/ \E c \in Callers : ScanBegin(c)
    \/ \E c \in Callers : ScanSkip(c)
    \/ \E c \in Callers : ScanOpenFail(c)
    \/ \E c \in Callers : ScanOpenOk(c)
    \/ \E c \in Callers : CheckOk(c)
    \/ \E c \in Callers : CheckFail(c)
    \/ \E c \in Callers : EchoDone(c)
    \/ \E c \in Callers : ModeDone(c)
    \/ \E c \in Callers : ScanEnd(c)
    \/ \E c \in Callers : GetService(c)
    \/ \E c \in Callers : HandlerReject(c)
    \/ \E c \in Callers : CmdLock(c)
    \/ \E c \in Callers : CmdWrite(c)
    \/ \E c \in Callers : CmdLoop(c)
    \/ \E c \in Callers : CmdReadData(c)
    \/ \E c \in Callers : CmdReadEOF(c)
    \/ \E c \in Callers : CmdReadErr(c)
    \/ \E c \in Callers : CmdSleep(c)

SpecPool == Init /\ [][NextPool]_vars

\* ---------------------------------------------------------- properties
\* the positions of sendRawCommand between s.Lock() and its return
ExchangePcs == {"cmd_write", "cmd_loop", "cmd_read", "cmd_sleep"}

InExchange(c, p) == caller[c].path = p /\ caller[c].pc \in ExchangePcs

\* the goroutines that have a read or write of the link of p in hand
LinkUsers(p) ==
    {c \in Callers : InExchange(c, p)} \cup (IF lst[p].pc = "read" THEN {"listener"} ELSE {})

\* C1: on one session at most one goroutine is between taking the session
\* mutex and releasing it around a read or write of the link: no two
\* command exchanges overlap, and the listener is not reading while an
\* exchange is between its write and its return.
C1_OneLinkUser == \A p \in Paths : Cardinality(LinkUsers(p)) <= 1

\* one exchange is reading while the other handler and the listener wait
C1_Witness ==
    \E p \in Paths, c \in Callers, d \in Callers :
        /\ c # d
        /\ caller[c].path = p /\ caller[c].pc = "cmd_read"
        /\ caller[d].path = p /\ caller[d].pc = "cmd_lock"
        /\ lst[p].pc = "lock"

\* the exchange of c is in its read loop
InLoop(c) == caller[c].pc \in {"cmd_loop", "cmd_read", "cmd_sleep"}

\* C2: a command exchange that has not returned is within its deadline,
\* allowing for the one read timeout and one back-off sleep that can lie
\* between two tests of the deadline; and an exchange that leaves its loop
\* with no terminal token seen and no error of the link, at the head of the
\* loop or after a Read that timed out with no data, returns the timeout
\* failure.
C2_ReturnsByDeadline ==
    /\ [](\A c \in Callers :
            InLoop(c) => caller[c].elapsed <= Timeout(c) + readTimeout + errorSleep)
    /\ [][\A c \in Callers :
            ((CmdLoop(c) \/ CmdReadEOF(c)) /\ caller'[c].pc = "cmd_done")
                => caller'[c].ret = [resp |-> <<>>, err |-> "timeout"]]_vars

\* the iteration of Broadcast by p that reaches ch is taken in this step
Attempts(p, ch) ==
    /\ lst[p].pc = "send"
    /\ ch \in lst[p].todo
    /\ ch \notin lst'[p].todo

Full(ch) == Len(chBuf[ch]) >= chCap[ch]

\* C3: Broadcast never waits: whatever the fill levels, its iteration for
\* every channel still to be visited can be taken at once and its return
\* can be taken when none is left; the iteration that finds a channel full
\* leaves the channel's queue as it was and raises nothing.
C3_BroadcastNeverBlocks ==
    /\ [](\A p \in Paths : lst[p].pc = "send" =>
            /\ \A ch \in lst[p].todo : ENABLED SendTo(p, ch)
            /\ lst[p].todo = {} => ENABLED BroadcastEnd(p)
            /\ ~panicked)
    /\ [][\A p \in Paths, ch \in Chans :
            Attempts(p, ch) /\ Full(ch) =>
                /\ chBuf'[ch] = chBuf[ch]
                /\ Msg(p).id \notin chGot'[ch]
                /\ lst'[p].pc = "send"
                /\ ~panicked']_vars

\* a broadcast has passed over a full channel and gone on
C3_Witness ==
    \E p \in Paths, ch \in Chans :
        /\ lst[p].pc = "send"
        /\ ch \in elPool /\ ch \notin lst[p].todo
        /\ Msg(p).id \in chMiss[ch]
        /\ Full(ch)

\* C4: the first invocation of a cancel handle takes its channel out of
\* el.pool and closes it; no later invocation changes anything, and no
\* channel is closed twice.
C4_CancelOnce ==
    /\ [](\A ch \in Chans :
            /\ closes[ch] <= 1
            /\ ~panicked
            /\ cancels[ch] >= 1 => (ch \notin elPool /\ chClosed[ch] /\ closes[ch] = 1)
            /\ cancels[ch] = 0 /\ chCap[ch] # 0 => (ch \in elPool /\ ~chClosed[ch]))
    /\ [][\A ch \in Chans :
            cancels[ch] >= 1 /\ cancels'[ch] # cancels[ch] =>
                UNCHANGED <<elPool, chBuf, chCap, chClosed, closes, panicked>>]_vars

\* a cancel handle has been invoked twice
C4_Witness == \E ch \in Chans : cancels[ch] = 2 /\ closes[ch] = 1 /\ chBuf[ch] # <<>>

\* number of copies of the message with this id in a queue
Copies(q, id) == Cardinality({i \in 1..Len(q) : q[i].id = id})

\* C5: the iteration of Broadcast that reaches a channel appends the
\* message to it once if it has room and leaves it alone if not, and touches
\* no other channel; a broadcast visits exactly the channels registered when
\* it began, each once, so that every one of them was either given the
\* message once or passed over, never both and never later.
C5_OneCopyEach ==
    /\ [](\A p \in Paths : lst[p].pc = "send" =>
            /\ lst[p].todo \subseteq elPool
            /\ \A ch \in elPool \ lst[p].todo :
                 (Msg(p).id \in chGot[ch]) # (Msg(p).id \in chMiss[ch])
            /\ \A ch \in lst[p].todo \cup (Chans \ elPool) :
                 Msg(p).id \notin chGot[ch] \cup chMiss[ch])
    /\ [](\A ch \in Chans :
            /\ chGot[ch] \cap chMiss[ch] = {}
            /\ \A i \in 1..Len(chBuf[ch]) : Copies(chBuf[ch], chBuf[ch][i].id) = 1)
    /\ [][\A p \in Paths, ch \in Chans :
            Attempts(p, ch) =>
                /\ chBuf'[ch] = IF Full(ch) THEN chBuf[ch] ELSE Append(chBuf[ch], Msg(p))
                /\ \A k \in Chans \ {ch} : chBuf'[k] = chBuf[k]]_vars

\* one broadcast has been queued in one channel and passed over another
C5_Witness ==
    \E p \in Paths, ch \in Chans, k \in Chans :
        /\ lst[p].pc = "send" /\ lst[p].todo = {}
        /\ {ch, k} \subseteq elPool
        /\ Msg(p).id \in chGot[ch]
        /\ Msg(p).id \in chMiss[k]

\* numbers of the messages of session p among ids
Numbers(ids, p) == {id[2] : id \in {x \in ids : x[1] = p}}

\* C6: in every channel the messages of one session leave in the order of
\* their emission: whenever a message waits in the queue, every later
\* message of its session that was ever queued there waits behind it; and a
\* channel that was passed over by no broadcast has been given an unbroken
\* run of each session's messages.
C6_SessionOrder ==
    \A ch \in Chans :
        /\ \A i \in 1..Len(chBuf[ch]) :
             LET id == chBuf[ch][i].id IN
             \A n \in Numbers(chGot[ch], id[1]) :
                 n > id[2] => \E j \in (i + 1)..Len(chBuf[ch]) : chBuf[ch][j].id = <<id[1], n>>
        /\ chMiss[ch] = {} =>
             \A p \in Paths : \A n \in Numbers(chGot[ch], p), m \in Numbers(chGot[ch], p) :
                 \A k \in n..m : k \in Numbers(chGot[ch], p)

\* a subscriber that lost nothing holds two messages of one session with
\* a message of the other between them
C6_Witness ==
    \E ch \in Chans :
        /\ chMiss[ch] = {}
        /\ Len(chBuf[ch]) = 3
        /\ chBuf[ch][1].id[1] # chBuf[ch][2].id[1]
        /\ chBuf[ch][2].id[1] # chBuf[ch][3].id[1]

\* the handler c is inside Scan
Scanning(c) ==
    \/ caller[c].pc = "scan"
    \/ caller[c].cont \in {"check", "echo", "mode"}

\* the handler c is at the end of Scan's candidate loop
ScanOver(c) == caller[c].pc = "scan" /\ caller[c].todo = <<>>

\* C7: a Scan never opens a path that was in the pool when it began, the
\* pool it leaves holds the pool it found, a Scan all of whose candidates
\* were already in the pool leaves the pool as it found it, nobody verifies
\* a path of the pool, and no path is ever given a second listener.
C7_ScanIdempotent ==
    /\ \A c \in Callers : Scanning(c) =>
          /\ caller[c].tried \cap caller[c].pool0 = {}
          /\ caller[c].pool0 \subseteq mPool
          /\ caller[c].cands \subseteq caller[c].pool0 =>
                (mPool = caller[c].pool0 /\ caller[c].tried = {})
          /\ caller[c].cont = "check" => Path(c) \notin mPool
          /\ caller[c].cont \in {"echo", "mode"} => started[Path(c)] = 0
    /\ \A p \in Paths :
          /\ started[p] <= 1
          /\ p \in mPool => opens[p] >= 1

\* a second Scan has gone through candidates that are all in the pool
C7_Witness ==
    \E c \in Callers :
        /\ ScanOver(c)
        /\ scans = 2
        /\ caller[c].cands = Paths
        /\ caller[c].pool0 = Paths

\* an open or a verification fails in this step
Fails ==
    \/ \E p \in Paths : opens'[p] # opens[p] /\ ~portOpen'[p]
    \/ \E c \in Callers :
          /\ caller[c].pc = "cmd_done" /\ caller[c].cont = "check"
          /\ caller'[c].cont # "echo"
          /\ caller'[c] # caller[c]

\* C8: the step in which an open or a verification fails leaves the pool
\* as it is and puts the Scan back in its candidate loop with the candidates
\* it had left; a path outside the pool has no listener and no open handle
\* but the one being verified; and at the end of every Scan each candidate
\* is in the pool or was tried by this Scan, whatever failed before.
C8_FailedPathSkipped ==
    /\ [][Fails =>
            /\ mPool' = mPool
            /\ \A c \in Callers : mLock = c =>
                  /\ caller'[c].pc = "scan"
                  /\ \/ caller'[c].todo = caller[c].todo
                     \/ /\ caller[c].todo # <<>>
                        /\ caller'[c].todo = Tail(caller[c].todo)
                  /\ caller'[c].cands = caller[c].cands]_vars
    /\ [](\A p \in Paths \ mPool :
            /\ lst[p].pc = "off"
            /\ portOpen[p] => \E c \in Callers : Path(c) = p /\ caller[c].cont = "check")
    /\ [](\A c \in Callers : ScanOver(c) =>
            \A p \in caller[c].cands : p \in mPool \/ p \in caller[c].tried)

\* a Scan is over in which a path failed and the path after it was
\* registered, a later Scan having tried the failed path again
C8_Witness ==
    \E c \in Callers :
        /\ ScanOver(c)
        /\ scans = 2
        /\ 1 \in failed /\ 1 \in caller[c].tried /\ 1 \notin mPool
        /\ 2 \in caller[c].pool0
        /\ opens[1] = 2

\* the step is GetService called by c
Gets(c) == caller[c].pc = "idle" /\ caller'[c].pc = "got"

\* C9: GetService answers with the session exactly when the name is in
\* the pool and with the not-connected error otherwise, and changes nothing
\* but the handler that called it: not the pool, no handle, no session
\* mutex, no listener, no count of opens.
C9_GetIsALookup ==
    [][\A c \in Callers : Gets(c) =>
          /\ caller'[c].ret.err = (IF caller'[c].path \in mPool THEN "none" ELSE "not connected")
          /\ caller'[c].path \in Paths
          /\ UNCHANGED <<poolVars, sLock, lst, busVars>>
          /\ \A d \in Callers \ {c} : caller'[d] = caller[d]]_vars

\* one handler was given a session and the other the not-connected error
C9_Witness ==
    \E c \in Callers, d \in Callers :
        /\ caller[c].pc = "got" /\ caller[c].ret.err = "none" /\ caller[c].path \in mPool
        /\ caller[d].pc = "got" /\ caller[d].ret.err = "not connected"
        /\ caller[d].path \notin mPool

\* C10: whoever holds m.mu is not inside a command exchange, that is, no
\* liveness or setup command is in progress under the registry lock.
C10_NoLinkIOUnderRegistryLock ==
    \A c \in Callers : mLock = c => caller[c].pc \notin ExchangePcs \cup {"cmd_lock"}

\* ------------------------------------------- two devices, one of them slow
\* Session 1 is registered and active; a second device can appear and a Scan
\* can try to open it while the other handler addresses session 1.
InitWedge == Active({1})

NextWedge ==
    \/ \E p \in Paths : Attach(p)
    \/ \E c \in Callers : ScanBegin(c)
    \/ \E c \in Callers : ScanSkip(c)
    \/ \E c \in Callers : ScanOpenFail(c)
    \/ \E c \in Callers : ScanOpenOk(c)
    \/ \E c \in Callers : CheckOk(c)
    \/ \E c \in Callers : CheckFail(c)
    \/ \E c \in Callers : EchoDone(c)
    \/ \E c \in Callers : ModeDone(c)
    \/ \E c \in Callers : ScanEnd(c)
    \/ \E c \in Callers : GetService(c)
    \/ \E c \in Callers : HandlerSend(c)
    \/ \E c \in Callers : HandlerReject(c)
    \/ \E c \in Callers : HandlerDone(c)
    \/ \E c \in Callers : CmdLock(c)
    \/ \E c \in Callers : CmdWrite(c)
    \/ \E c \in Callers : CmdLoop(c)
    \/ \E c \in Callers : CmdReadData(c)
    \/ \E c \in Callers : CmdReadEOF(c)
    \/ \E c \in Callers : CmdReadErr(c)
    \/ \E c \in Callers : CmdSleep(c)

SpecWedge == InitWedge /\ [][NextWedge]_vars

\* c is in the read loop of an exchange on the link of p: a command a handler
\* sent, or the liveness and setup commands of Scan's open attempt
WaitingOnLink(c, p) ==
    caller[c].path = p /\ caller[c].pc \in {"cmd_loop", "cmd_read", "cmd_sleep"}

\* C11: while a handler waits on the link of one device, in a command
\* exchange or in the open attempt of Scan, another handler that is about to
\* look up a different, registered device can do the lookup at once, and one
\* that is about to send it a command can take that session's lock at once.
C11_OtherDeviceNotBlocked ==
    \A c \in Callers, d \in Callers, p \in Paths, q \in Paths :
        (c # d /\ p # q /\ q \in mPool /\ WaitingOnLink(c, p)) =>
            /\ caller[d].pc = "idle" => ENABLED GetService(d)
            /\ (caller[d].pc = "cmd_lock" /\ caller[d].path = q) => ENABLED CmdLock(d)

\* C12: a Read that reports end-of-data ends the exchange with success, the
\* response being what had been accumulated; and an exchange returns the
\* timeout failure only when its deadline has been reached.
C12_EndOfDataReturnsAccumulated ==
    [][\A c \in Callers :
          /\ CmdReadEOF(c) =>
                /\ caller'[c].pc = "cmd_done"
                /\ caller'[c].ret = [resp |-> caller[c].resp, err |-> "none"]
          /\ (caller[c].pc \in ExchangePcs /\ caller'[c].pc = "cmd_done"
                /\ caller'[c].ret.err = "timeout") => caller[c].elapsed >= atTimeout]_vars

\* C13: an exchange whose response holds the error token is returned to the
\* caller as a failure, never as a success.
C13_ErrorTokenIsFailure ==
    \A c \in Callers :
        (caller[c].pc = "cmd_done" /\ Contains(caller[c].ret.resp, respError))
            => caller[c].ret.err # "none"

\* ------------------------------------------------------ DeleteSMS
\* DeleteSMS(index): SendATCommand of the delete-by-index command
DeleteSMS(c) ==
    /\ rev \in DeadlineRevs
    /\ caller[c].pc = "got"
    /\ caller[c].ret.err = "none"
    /\ caller' = [caller EXCEPT ![c].pc = "cmd_lock", ![c].cont = "delete"]
    /\ UNCHANGED <<env, poolVars, sLock, lst, busVars>>

\* DeleteSMS returns the error of the exchange and nothing else
DeleteSMSReturn(c) ==
    /\ caller[c].pc = "cmd_done"
    /\ caller[c].cont = "delete"
    /\ caller' = [caller EXCEPT ![c].pc = "deleted"]
    /\ UNCHANGED <<env, poolVars, sLock, lst, busVars>>

\* the caller of DeleteSMS has its answer
DeleteReplied(c) ==
    /\ caller[c].pc = "deleted"
    /\ caller' = [caller EXCEPT ![c] = IdleCaller]
    /\ UNCHANGED <<env, poolVars, sLock, lst, busVars>>

\* One active session of package modem and the handlers that delete messages.
InitDelete == Active({1}) /\ rev \in DeadlineRevs

NextDelete ==
    \/ \E c \in Callers : GetService(c)
    \/ \E c \in Callers : HandlerReject(c)
    \/ \E c \in Callers : DeleteSMS(c)
    \/ \E c \in Callers : DeleteSMSReturn(c)
    \/ \E c \in Callers : DeleteReplied(c)
    \/ \E c \in Callers : CmdLock(c)
    \/ \E c \in Callers : CmdWrite(c)
    \/ \E c \in Callers : CmdLoop(c)
    \/ \E c \in Callers : CmdReadData(c)
    \/ \E c \in Callers : CmdReadEOF(c)
    \/ \E c \in Callers : CmdReadErr(c)
    \/ \E c \in Callers : CmdSleep(c)

SpecDelete == InitDelete /\ [][NextDelete]_vars

\* C14: DeleteSMS reports success only if the response of the device to the
\* delete command holds the success token.
C14_DeleteNeedsSuccessToken ==
    \A c \in Callers :
        (caller[c].pc = "deleted" /\ caller[c].ret.err = "none")
            => Contains(caller[c].ret.resp, respOK)

\* ------------------------------------------------- ListSMS: the merge
\* ListSMS after the listing has been split and every record decoded: parts
\* holds one record per +CMGL entry, in the order the device listed them, with
\* the text and the concatenation fields decodeHexSMS gave.  Status and Time
\* travel with Index and are left out.

\* records in one listing
MaxParts == 3

Senders == {"A", "B"}
Refs == {0, 7}
Totals == {0, 1, 2}
Seqs == {1, 2}
\* the text of the k-th record of a listing
Letters == <<"a", "b", "c", "d", "e", "f">>

\* the device index of the k-th record: devices list by ascending index,
\* and the worst case for the merge is the opposite order
IndexAt(k) == IF sms.order = "asc" THEN k ELSE MaxParts + 1 - k

\* the device lists one more record
Listed(number, ref, total, seq) ==
    /\ ~sms.done
    /\ Len(sms.parts) < MaxParts
    /\ LET k == Len(sms.parts) + 1 IN
         sms' = [sms EXCEPT !.parts = Append(@,
                    [Index |-> IndexAt(k), Number |-> number, Message |-> <<Letters[k]>>,
                     ref |-> ref, total |-> total, seq |-> seq])]
    /\ UNCHANGED <<rev, codec, signal, ident, wire, ws, poolVars, sLock, lst, caller, busVars>>

\* key := fmt.Sprintf("%s_%d", p.Number, p.ref)
Key(p) == <<p.Number, p.ref>>

\* a merge that groups every record
PassThroughNone(p) == FALSE

\* first loop: p.total <= 1 goes to the result as it is
PassThrough(p) == p.total <= 1

\* the permutations of 1..n
Perms(n) == {f \in [1..n -> 1..n] : \A i, j \in 1..n : f[i] = f[j] => i = j}

\* sort.Slice (not stable) of elements with the given sort keys: the orders
\* in which it can leave them
SortSlice(keys) ==
    {f \in Perms(Len(keys)) : \A i, j \in 1..Len(keys) : i < j => ~(keys[f[j]] < keys[f[i]])}

\* the positions in parts of the fragments in merged[key], in listing order
RECURSIVE Positions(_, _, _)
Positions(parts, key, i) ==
    IF i > Len(parts) THEN <<>>
    ELSE (IF ~PassThrough(parts[i]) /\ Key(parts[i]) = key THEN <<i>> ELSE <<>>)
            \o Positions(parts, key, i + 1)

\* the keys of merged
Keys(parts) == {Key(parts[i]) : i \in {j \in 1..Len(parts) : ~PassThrough(parts[j])}}

RECURSIVE Concat(_, _, _, _)
Concat(parts, pos, f, i) ==
    IF i > Len(pos) THEN <<>>
    ELSE parts[pos[f[i]]].Message \o Concat(parts, pos, f, i + 1)

\* fullMsg: the texts of merged[key] after the sort by seq
FullMsgs(parts, key) ==
    LET pos == Positions(parts, key, 1)
        seqs == [a \in 1..Len(pos) |-> parts[pos[a]].seq]
    IN {Concat(parts, pos, f, 1) : f \in SortSlice(seqs)}

\* the records the metadata loop can stop at: same key and seq = 1
Reps(parts, key) == {i \in 1..Len(parts) : Key(parts[i]) = key /\ parts[i].seq = 1}

\* the record the metadata loop stops at: the first of them
Rep(parts, key) == CHOOSE i \in Reps(parts, key) : \A j \in Reps(parts, key) : i <= j

\* an entry of result: p.SMS with the given text
Entry(p, msg) == [Index |-> p.Index, Number |-> p.Number, Message |-> msg]

\* what the first loop appends to result, in the order of parts
RECURSIVE PassEntries(_)
PassEntries(parts) ==
    IF parts = <<>> THEN <<>>
    ELSE (IF PassThrough(Head(parts)) THEN <<Entry(Head(parts), Head(parts).Message)>>
          ELSE <<>>) \o PassEntries(Tail(parts))

\* the keys for which the second loop appends an entry
Emitting(parts) == {key \in Keys(parts) : Reps(parts, key) # {}}

\* what the second loop can append to result: one entry per emitting key, the
\* keys in the order the range over the map merged takes them
MergedEntries(parts) ==
    LET K == Emitting(parts)
        n == Cardinality(K)
        all == UNION {FullMsgs(parts, key) : key \in K}
    IN {[i \in 1..n |-> Entry(parts[Rep(parts, ord[i])], c[ord[i]])] :
           ord \in {o \in [1..n -> K] : \A i, j \in 1..n : o[i] = o[j] => i = j},
           c \in {d \in [K -> all] : \A key \in K : d[key] \in FullMsgs(parts, key)}}

\* the final sort.Slice by Index of the entries appended
SortByIndex(result) ==
    {[i \in 1..Len(result) |-> result[f[i]]] :
        f \in SortSlice([i \in 1..Len(result) |-> result[i].Index])}

\* the lists ListSMS can return for parts
ListSMSResults(parts) ==
    UNION {SortByIndex(PassEntries(parts) \o m) : m \in MergedEntries(parts)}

\* ListSMS, from "merge long SMS" to its return
ListSMS ==
    /\ ~sms.done
    /\ \E r \in ListSMSResults(sms.parts) : sms' = [sms EXCEPT !.done = TRUE, !.result = r]
    /\ UNCHANGED <<rev, codec, signal, ident, wire, ws, poolVars, sLock, lst, caller, busVars>>

\* the device lists newest first
ListDescending ==
    /\ ~sms.done
    /\ sms.parts = <<>>
    /\ sms.order = "asc"
    /\ sms' = [sms EXCEPT !.order = "desc"]
    /\ UNCHANGED <<rev, codec, signal, ident, wire, ws, poolVars, sLock, lst, caller, busVars>>

InitList ==
    /\ Init
    /\ rev = "modem"

NextList ==
    \/ ListDescending
    \/ \E number \in Senders, ref \in Refs, total \in Totals, seq \in Seqs :
          Listed(number, ref, total, seq)
    \/ ListSMS

SpecList == InitList /\ [][NextList]_vars

\* the position in the listing of the record a piece of text came from
PosOf(letter) == CHOOSE k \in 1..Len(Letters) : Letters[k] = letter

\* the records whose text the entry e carries
Src(e) == {PosOf(e.Message[a]) : a \in 1..Len(e.Message)}

\* e is a message made from concatenation fragments
IsMerged(e) == \E i \in Src(e) : sms.parts[i].total > 1

\* the fragments of the listing that belong with fragment i
GroupOf(i) ==
    {j \in 1..Len(sms.parts) :
        /\ sms.parts[j].total > 1
        /\ sms.parts[j].Number = sms.parts[i].Number
        /\ sms.parts[j].ref = sms.parts[i].ref}

\* the entries of the result that carry text of the records in G
Carrying(G) == {k \in 1..Len(sms.result) : Src(sms.result[k]) \cap G # {}}

\* C15: a message ListSMS makes from fragments has all of them: for every
\* fragment in it, every sequence number from 1 to that fragment's total is
\* the sequence number of a fragment in it.
C15_OnlyCompleteGroupsMerge ==
    sms.done =>
        \A k \in 1..Len(sms.result) :
            IsMerged(sms.result[k]) =>
                \A i \in Src(sms.result[k]) :
                    \A q \in 1..sms.parts[i].total :
                        \E j \in Src(sms.result[k]) : sms.parts[j].seq = q

\* C16: the fragments with total > 1 of one sender and reference give exactly
\* one message, and its text is their texts in ascending sequence number,
\* whatever the order of the listing.
C16_GroupMergedInSeqOrder ==
    sms.done =>
        \A i \in 1..Len(sms.parts) :
            sms.parts[i].total > 1 =>
                /\ Cardinality(Carrying(GroupOf(i))) = 1
                /\ \A k \in Carrying(GroupOf(i)) :
                      LET m == sms.result[k].Message IN
                      /\ Src(sms.result[k]) = GroupOf(i)
                      /\ Len(m) = Cardinality(GroupOf(i))
                      /\ \A a, b \in 1..Len(m) :
                            a < b => sms.parts[PosOf(m[a])].seq <= sms.parts[PosOf(m[b])].seq

\* C17: a record with total <= 1 is in the result once, under its own index
\* and sender and with its own text and no other.
C17_SinglesPassThrough ==
    sms.done =>
        \A i \in 1..Len(sms.parts) :
            sms.parts[i].total <= 1 =>
                /\ Cardinality(Carrying({i})) = 1
                /\ \A k \in Carrying({i}) :
                      /\ sms.result[k].Message = sms.parts[i].Message
                      /\ sms.result[k].Index = sms.parts[i].Index
                      /\ sms.result[k].Number = sms.parts[i].Number

\* a listing of three records of one sender and reference, two of them the
\* fragments of a two-part message and one with total <= 1, has been merged:
\* the result has the two-part message and the single one
C17_Witness ==
    /\ sms.done
    /\ Len(sms.parts) = 3
    /\ \A i \in 1..3 : Key(sms.parts[i]) = Key(sms.parts[1])
    /\ \E i \in 1..3 : sms.parts[i].total <= 1 /\ Cardinality(GroupOf(i)) = 2
    /\ \E k \in 1..Len(sms.result) : Len(sms.result[k].Message) = 2
    /\ Len(sms.result) = 2

\* C18: a message made from fragments is reported under the lowest index of
\* the fragments whose text it carries.
C18_MergedUnderLowestIndex ==
    sms.done =>
        \A k \in 1..Len(sms.result) :
            IsMerged(sms.result[k]) =>
                /\ \E i \in Src(sms.result[k]) : sms.parts[i].Index = sms.result[k].Index
                /\ \A i \in Src(sms.result[k]) : sms.result[k].Index <= sms.parts[i].Index

\* ------------------------------------------------------ the text codec
\* encodeUCS2, decodeHexSMS and decodeUCS2Hex of package modem.  A text is a
\* sequence of code points, a hex string a sequence of characters, and a text
\* that is the characters of a hex string taken literally is the sequence of
\* their code points.

\* code points in one text
MaxText == 4
\* pieces a payload received from the device is put together from
MaxTokens == 4

\* A, Greek alpha, Cyrillic komi de (U+0500), Arabic ray (U+0608), Cyrillic a
\* (U+0430), a CJK character, an emoji outside the basic plane
Runes == {65, 945, 1280, 1544, 1072, 20013, 128512}

\* the start of the 6-octet and of the 7-octet concatenation header, a
\* reference-total-sequence triple, a code unit, an octet, a digit, two
\* characters that are no hex digits
Tokens ==
    {<<"0", "5", "0", "0", "0", "3">>, <<"0", "6", "0", "8", "0", "4">>,
     <<"0", "7", "0", "2", "0", "1">>, <<"0", "0", "4", "1">>, <<"4", "1">>, <<"4">>, <<"G">>,
     <<"x">>}

HexUpper == <<"0", "1", "2", "3", "4", "5", "6", "7", "8", "9", "A", "B", "C", "D", "E", "F">>
HexLower == <<"0", "1", "2", "3", "4", "5", "6", "7", "8", "9", "a", "b", "c", "d", "e", "f">>

\* position of x in the sequence t, 0 if it is not there
IndexOf(t, x) == IF \E i \in 1..Len(t) : t[i] = x
                 THEN CHOOSE i \in 1..Len(t) : t[i] = x ELSE 0

\* encoding/hex fromHexChar: the value of a hex digit, -1 for any other character
HexVal(ch) ==
    IF IndexOf(HexUpper, ch) > 0 THEN IndexOf(HexUpper, ch) - 1
    ELSE IF IndexOf(HexLower, ch) > 0 THEN IndexOf(HexLower, ch) - 1 ELSE -1

\* the printable characters of ASCII: U+0020 to U+005F and U+0061 to U+007E
\* (a string here cannot hold the grave accent, U+0060)
AsciiLow ==
    <<" ", "!", "\"", "#", "$", "%", "&", "'", "(", ")", "*", "+", ",", "-", ".", "/",
      "0", "1", "2", "3", "4", "5", "6", "7", "8", "9", ":", ";", "<", "=", ">", "?",
      "@", "A", "B", "C", "D", "E", "F", "G", "H", "I", "J", "K", "L", "M", "N", "O",
      "P", "Q", "R", "S", "T", "U", "V", "W", "X", "Y", "Z", "[", "\\", "]", "^", "_">>
AsciiHigh ==
    <<"a", "b", "c", "d", "e", "f", "g", "h", "i", "j", "k", "l", "m", "n", "o", "p",
      "q", "r", "s", "t", "u", "v", "w", "x", "y", "z", "{", "|", "}", "~">>

\* the code point of a character: of ASCII's printable characters and of
\* white space
Ord(ch) ==
    IF IndexOf(AsciiLow, ch) > 0 THEN 31 + IndexOf(AsciiLow, ch)
    ELSE IF IndexOf(AsciiHigh, ch) > 0 THEN 96 + IndexOf(AsciiHigh, ch)
    ELSE (CHOOSE e \in SpaceTable : e[1] = ch)[2]

\* a string returned where a text is expected
Literal(str) == [i \in 1..Len(str) |-> Ord(str[i])]

\* hex.DecodeString: the octets of the pairs before the first bad character,
\* and whether there was an error (a bad character, or an odd length)
RECURSIVE DecodePairs(_)
DecodePairs(h) ==
    IF Len(h) < 2 THEN [bytes |-> <<>>, bad |-> FALSE]
    ELSE IF HexVal(h[1]) < 0 \/ HexVal(h[2]) < 0 THEN [bytes |-> <<>>, bad |-> TRUE]
    ELSE LET r == DecodePairs(SubSeq(h, 3, Len(h))) IN
         [bytes |-> <<16 * HexVal(h[1]) + HexVal(h[2])>> \o r.bytes, bad |-> r.bad]

DecodeString(h) ==
    LET r == DecodePairs(h) IN
    [bytes |-> r.bytes,
     err |-> r.bad \/ Len(h) % 2 = 1 \/ \E i \in 1..Len(h) : HexVal(h[i]) < 0]

\* hex.EncodeToString
RECURSIVE EncodeToString(_)
EncodeToString(b) ==
    IF b = <<>> THEN <<>>
    ELSE <<HexLower[(b[1] \div 16) + 1], HexLower[(b[1] % 16) + 1]>>
            \o EncodeToString(Tail(b))

\* fmt.Sprintf("%04X", r) for a 16-bit r
Fmt04X(r) ==
    <<HexUpper[(r \div 4096) + 1], HexUpper[((r \div 256) % 16) + 1],
      HexUpper[((r \div 16) % 16) + 1], HexUpper[(r % 16) + 1]>>

IsSurrogate(r) == 55296 <= r /\ r <= 57343

\* utf16.Encode
RECURSIVE Utf16Encode(_)
Utf16Encode(runes) ==
    IF runes = <<>> THEN <<>>
    ELSE LET r == Head(runes) IN
         (IF r >= 65536 /\ r <= 1114111
          THEN <<55296 + ((r - 65536) \div 1024), 56320 + ((r - 65536) % 1024)>>
          ELSE IF r < 0 \/ r > 1114111 \/ IsSurrogate(r) THEN <<65533>> ELSE <<r>>)
            \o Utf16Encode(Tail(runes))

\* utf16.Decode
RECURSIVE Utf16Decode(_)
Utf16Decode(u) ==
    IF u = <<>> THEN <<>>
    ELSE IF /\ 55296 <= u[1] /\ u[1] < 56320
            /\ Len(u) > 1 /\ 56320 <= u[2] /\ u[2] <= 57343
         THEN <<65536 + (u[1] - 55296) * 1024 + (u[2] - 56320)>>
                \o Utf16Decode(SubSeq(u, 3, Len(u)))
         ELSE <<IF IsSurrogate(u[1]) THEN 65533 ELSE u[1]>> \o Utf16Decode(Tail(u))

RECURSIVE WriteUnits(_)
WriteUnits(u16) == IF u16 = <<>> THEN <<>> ELSE Fmt04X(Head(u16)) \o WriteUnits(Tail(u16))

encodeUCS2(text) == WriteUnits(Utf16Encode(text))

\* u16[i] = uint16(b[i*2])<<8 | uint16(b[i*2+1])
Units(b) == [i \in 1..(Len(b) \div 2) |-> b[2 * i - 1] * 256 + b[2 * i]]

decodeUCS2Hex(str) ==
    LET s == TrimSpace(str)
        d == DecodeString(s)
    IN IF d.err \/ Len(d.bytes) % 2 # 0 THEN Literal(s) ELSE Utf16Decode(Units(d.bytes))

\* decodeHexSMS: err != nil || len(content)%2 != 0
Malformed(content) == DecodeString(content).err \/ Len(content) % 2 # 0

\* a decoder that takes the reference of the 7-octet header from its low octet only
HeaderLowRef(b) ==
    IF Len(b) > 6 /\ b[1] = 5 /\ b[2] = 0 /\ b[3] = 3
    THEN [offset |-> 6, ref |-> b[4], total |-> b[5], seq |-> b[6]]
    ELSE IF Len(b) > 7 /\ b[1] = 6 /\ b[2] = 8 /\ b[3] = 4
    THEN [offset |-> 7, ref |-> b[5], total |-> b[6], seq |-> b[7]]
    ELSE [offset |-> 0, ref |-> 0, total |-> 1, seq |-> 1]

\* decodeHexSMS: offset, ref, total, seq from the first octets
Header(b) ==
    IF Len(b) > 6 /\ b[1] = 5 /\ b[2] = 0 /\ b[3] = 3
    THEN [offset |-> 6, ref |-> b[4], total |-> b[5], seq |-> b[6]]
    ELSE IF Len(b) > 7 /\ b[1] = 6 /\ b[2] = 8 /\ b[3] = 4
    THEN [offset |-> 7, ref |-> b[4] * 256 + b[5], total |-> b[6], seq |-> b[7]]
    ELSE [offset |-> 0, ref |-> 0, total |-> 1, seq |-> 1]

Raw(content) == [text |-> Literal(content), ref |-> 0, total |-> 1, seq |-> 1]

decodeHexSMS(payload) ==
    LET content == TrimSpace(payload)
        b == DecodeString(content).bytes
        h == Header(b)
    IN IF Malformed(content) THEN Raw(content)
       ELSE IF (Len(b) - h.offset) % 2 # 0 THEN Raw(content)
       ELSE [text |-> decodeUCS2Hex(EncodeToString(SubSeq(b, h.offset + 1, Len(b)))),
             ref |-> h.ref, total |-> h.total, seq |-> h.seq]

codecRest == <<rev, sms, signal, ident, wire, ws, poolVars, sLock, lst, caller, busVars>>

\* the caller of SendSMS gives one more character of the message
TypeRune(r) ==
    /\ codec.stage \in {"idle", "text"}
    /\ Len(codec.text) < MaxText
    /\ codec' = [codec EXCEPT !.stage = "text", !.text = Append(@, r)]
    /\ UNCHANGED codecRest

\* SendSMS: encodedMessage := encodeUCS2(message)
EncodeUCS2 ==
    /\ codec.stage \in {"idle", "text"}
    /\ codec' = [codec EXCEPT !.stage = "encoded", !.hex = encodeUCS2(codec.text)]
    /\ UNCHANGED codecRest

\* the device lists a record whose content has one more piece
ReceivePayload(tok) ==
    /\ codec.stage \in {"idle", "payload"}
    /\ codec.n < MaxTokens
    /\ codec' = [codec EXCEPT !.stage = "payload", !.hex = @ \o tok, !.n = @ + 1]
    /\ UNCHANGED codecRest

\* ListSMS: decodeHexSMS(content), of a payload received or of what
\* encodeUCS2 made
DecodeHexSMS ==
    /\ codec.stage \in {"encoded", "payload"}
    /\ codec' = [codec EXCEPT !.stage = IF @ = "encoded" THEN "roundtrip" ELSE "decoded",
                              !.out = decodeHexSMS(codec.hex)]
    /\ UNCHANGED codecRest

InitCodec ==
    /\ Init
    /\ rev = "modem"

NextCodec ==
    \/ \E r \in Runes : TypeRune(r)
    \/ EncodeUCS2
    \/ \E tok \in Tokens : ReceivePayload(tok)
    \/ DecodeHexSMS

SpecCodec == InitCodec /\ [][NextCodec]_vars

\* C19: the text decodeHexSMS gives for what encodeUCS2 made of a text is that
\* text, as one part.
C19_RoundTrip ==
    codec.stage = "roundtrip" => (codec.out.text = codec.text /\ codec.out.total = 1)

\* ------------------------------------------------------ GetSignalStrength
\* the signal levels and error rates the device reports in +CSQ
Rssis == {0, 1, 15, 31, 32, 99}
Quals == {0, 7, 99}

Digits == <<"0", "1", "2", "3", "4", "5", "6", "7", "8", "9">>
cmdCheck == <<"A", "T">>

\* fmt %d
RECURSIVE Itoa(_)
Itoa(n) ==
    IF n < 0 THEN <<"-">> \o Itoa(-n)
    ELSE IF n < 10 THEN <<Digits[n + 1]>>
    ELSE Itoa(n \div 10) \o <<Digits[(n % 10) + 1]>>

\* strings.Split(s, "\n")
RECURSIVE Split(_)
Split(s) ==
    IF \E i \in 1..Len(s) : s[i] = "\n"
    THEN LET i == CHOOSE k \in 1..Len(s) : s[k] = "\n" /\ \A j \in 1..(k - 1) : s[j] # "\n"
         IN <<SubSeq(s, 1, i - 1)>> \o Split(SubSeq(s, i + 1, Len(s)))
    ELSE <<s>>

\* strings.HasPrefix
HasPrefix(s, t) == Len(s) >= Len(t) /\ SubSeq(s, 1, Len(t)) = t

\* extractValue: the first line that is not empty, not the success token and
\* not an echo of the command
extractValue(response) ==
    LET lines == Split(response)
        Value(i) == TrimSpace(lines[i])
        Good(i) == Value(i) # <<>> /\ Value(i) # respOK /\ ~HasPrefix(Value(i), cmdCheck)
    IN IF \E i \in 1..Len(lines) : Good(i)
       THEN Value(CHOOSE i \in 1..Len(lines) : Good(i) /\ \A j \in 1..(i - 1) : ~Good(j))
       ELSE <<>>

\* isSpace of fmt's scanner, newline apart: the spaces a space of the format
\* and the space skipping of a verb take from the input
ScanSpace(ch) == IsSpace(ch) /\ ch # "\n"

\* SkipSpace of fmt's scanner: a newline of the input is not skipped by
\* Sscanf, the scan fails on it
RECURSIVE SkipSpace(_)
SkipSpace(s) == IF s # <<>> /\ ScanSpace(Head(s)) THEN SkipSpace(Tail(s)) ELSE s

\* scanNumber of %d: the number of decimal digits s begins with
RECURSIVE DigitRun(_)
DigitRun(s) == IF s # <<>> /\ IndexOf(Digits, Head(s)) > 0 THEN 1 + DigitRun(Tail(s)) ELSE 0

\* the value of a run of decimal digits
RECURSIVE Atoi(_)
Atoi(s) == IF s = <<>> THEN 0 ELSE 10 * Atoi(SubSeq(s, 1, Len(s) - 1)) + IndexOf(Digits, s[Len(s)]) - 1

\* fmt %d of Sscanf: leading spaces, an optional sign, at least one digit;
\* the scan stops before the first character that is no digit
ScanInt(s) ==
    LET t == SkipSpace(s)
        u == IF t # <<>> /\ Head(t) \in {"+", "-"} THEN Tail(t) ELSE t
        k == DigitRun(u)
        v == Atoi(SubSeq(u, 1, k))
    IN [ok |-> k > 0,
        val |-> IF t # <<>> /\ Head(t) = "-" THEN -v ELSE v,
        rest |-> SubSeq(u, k + 1, Len(u))]

\* fmt.Sscanf(line, "+CSQ: %d,%d", &rssi, &qual): the space of the format
\* matches one or more spaces of the input other than a newline, or its end
ScanCSQ(line) ==
    LET pre == <<"+", "C", "S", "Q", ":">>
        Spaced == Len(line) = Len(pre) \/ ScanSpace(line[Len(pre) + 1])
        a == ScanInt(SubSeq(line, Len(pre) + 1, Len(line)))
        b == ScanInt(Tail(a.rest))
    IN IF ~HasPrefix(line, pre) \/ ~Spaced \/ ~a.ok
       THEN [ok |-> FALSE, rssi |-> 0, qual |-> 0]
       ELSE IF a.rest = <<>> \/ Head(a.rest) # "," \/ ~b.ok
       THEN [ok |-> FALSE, rssi |-> a.val, qual |-> 0]
       ELSE [ok |-> TRUE, rssi |-> a.val, qual |-> b.val]

\* fmt.Sprintf("%d dBm", -113+rssi*2)
Dbm(rssi) == Itoa(-113 + rssi * 2) \o <<" ", "d", "B", "m">>

Unknown == <<"u", "n", "k", "n", "o", "w", "n">>

\* GetSignalStrength of revision r, on the response of AT+CSQ, or on the
\* failure of the command
GetSignalStrength(r, resp, sendFailed) ==
    LET sc == ScanCSQ(extractValue(resp))
        none == [err |-> "none", RSSI |-> 0, Quality |-> 0, DBM |-> <<>>]
    IN IF sendFailed THEN [none EXCEPT !.err = "command"]
       ELSE IF ~sc.ok THEN [none EXCEPT !.err = "scan"]
       ELSE [err |-> "none", RSSI |-> sc.rssi, Quality |-> sc.qual,
             DBM |-> IF r = "pdu" /\ ~(sc.rssi >= 0 /\ sc.rssi <= 31)
                     THEN Unknown ELSE Dbm(sc.rssi)]

\* the information line of a +CSQ answer, and the answer as the device
\* sends it
CSQ(rssi, qual) == <<"+", "C", "S", "Q", ":", " ">> \o Itoa(rssi) \o <<",">> \o Itoa(qual)

\* the same line with another character, or none, after the colon
CSQSep(sep, rssi, qual) == <<"+", "C", "S", "Q", ":">> \o sep \o Itoa(rssi) \o <<",">> \o Itoa(qual)
Answer(line) == Crlf \o line \o Crlf \o Crlf \o respOK \o Crlf

\* what the device can send in answer to AT+CSQ
SignalResps ==
    {Answer(CSQ(r, q)) : r \in Rssis, q \in Quals}
        \cup {Answer(CSQSep(sep, 15, 7)) : sep \in {<<"\r">>, <<"\t">>, <<>>}}
        \cup {Answer(<<"+", "C", "S", "Q", ":", " ", "9">>), Crlf \o respError \o Crlf,
              Crlf \o respOK \o Crlf}

signalRest == <<rev, sms, codec, ident, wire, ws, poolVars, sLock, lst, caller, busVars>>

\* SendATCommand("AT+CSQ") has returned: with the response the exchange made
\* of what the device sent, or with an error and no response
SignalReply(r, sent, sendFailed) ==
    /\ signal.stage = "idle"
    /\ signal' = [signal EXCEPT !.stage = "replied", !.rev = r,
                                !.resp = IF sendFailed THEN <<>> ELSE Received(r, sent),
                                !.failed = sendFailed]
    /\ UNCHANGED signalRest

\* the rest of GetSignalStrength
SignalReturn ==
    /\ signal.stage = "replied"
    /\ signal' = [signal EXCEPT !.stage = "done",
                                !.out = GetSignalStrength(signal.rev, signal.resp, signal.failed)]
    /\ UNCHANGED signalRest

InitSignal == Init

NextSignal ==
    \/ \E sent \in SignalResps, f \in BOOLEAN : SignalReply(rev, sent, f)
    \/ SignalReturn

SpecSignal == InitSignal /\ [][NextSignal]_vars

\* C21: a signal record carries dBm = -113 + 2*RSSI when the reported RSSI is
\* in 0..31 (RSSI 31 gives -51 dBm), and "unknown" when the RSSI is outside
\* that range; no value is computed from an out-of-range RSSI.
C21_DbmOnlyInRange ==
    (signal.stage = "done" /\ signal.out.err = "none") =>
        /\ signal.out.RSSI \in 0..31 => signal.out.DBM = Dbm(signal.out.RSSI)
        /\ signal.out.RSSI = 31 => signal.out.DBM = <<"-", "5", "1", " ", "d", "B", "m">>
        /\ signal.out.RSSI \notin 0..31 => signal.out.DBM = Unknown

\* ------------------------------------------------------ ListSMS on a payload
\* ListSMS of the two revisions of package modem, from the response of the
\* listing command to the list returned: the records are cut out of the
\* response, each content is decoded (decodeHexSMS in the later revision, the
\* PDU parser in the earlier one) and the parts are merged.

\* strings.Split(s, sep) with a separator that is not empty
RECURSIVE SplitOn(_, _)
SplitOn(s, sep) ==
    IF Contains(s, sep)
    THEN LET At(i) == SubSeq(s, i, i + Len(sep) - 1) = sep
             i == CHOOSE k \in 1..Len(s) : At(k) /\ \A j \in 1..(k - 1) : ~At(j)
         IN <<SubSeq(s, 1, i - 1)>> \o SplitOn(SubSeq(s, i + Len(sep), Len(s)), sep)
    ELSE <<s>>

\* strings.SplitN(chunk, "\n", 2)
SplitN(chunk) ==
    IF \E i \in 1..Len(chunk) : chunk[i] = "\n"
    THEN LET i == CHOOSE k \in 1..Len(chunk) :
                      chunk[k] = "\n" /\ \A j \in 1..(k - 1) : chunk[j] # "\n"
         IN <<SubSeq(chunk, 1, i - 1), SubSeq(chunk, i + 1, Len(chunk))>>
    ELSE <<chunk>>

\* strings.TrimSuffix
TrimSuffix(s, suffix) ==
    IF Len(s) >= Len(suffix) /\ SubSeq(s, Len(s) - Len(suffix) + 1, Len(s)) = suffix
    THEN SubSeq(s, 1, Len(s) - Len(suffix)) ELSE s

\* strings.Trim(s, `"`)
RECURSIVE TrimQuotes(_)
TrimQuotes(s) ==
    IF s # <<>> /\ Head(s) = "\"" THEN TrimQuotes(Tail(s))
    ELSE IF s # <<>> /\ s[Len(s)] = "\"" THEN TrimQuotes(SubSeq(s, 1, Len(s) - 1))
    ELSE s

\* idx, _ := strconv.Atoi(s): an optional sign and decimal digits, and 0 for
\* anything else
AtoiOrZero(s) ==
    LET u == IF s # <<>> /\ Head(s) \in {"+", "-"} THEN Tail(s) ELSE s
    IN IF u = <<>> \/ DigitRun(u) # Len(u) THEN 0
       ELSE IF Head(s) = "-" THEN -Atoi(u) ELSE Atoi(u)

\* the payload has a character that is no hex digit
NotHex(h) == \E i \in 1..Len(h) : HexVal(h[i]) < 0

\* the first octet of the UTF-8 encoding of a code point below U+10000
FirstByte(cp) ==
    IF cp < 128 THEN cp ELSE IF cp < 2048 THEN 192 + (cp \div 64) ELSE 224 + (cp \div 4096)

\* unicode.IsPrint of a rune below U+0100
IsPrint(b) == (32 <= b /\ b <= 126) \/ (161 <= b /\ b <= 255 /\ b # 173)

\* the text of the error of hex.DecodeString: InvalidByteError of the first
\* octet that is no hex digit, printed with %#U, or ErrLength
HexError(h) ==
    IF NotHex(h)
    THEN LET i == CHOOSE k \in 1..Len(h) : HexVal(h[k]) < 0 /\ \A j \in 1..(k - 1) : HexVal(h[j]) >= 0
             b == FirstByte(Ord(h[i]))
         IN Literal(<<"e", "n", "c", "o", "d", "i", "n", "g", "/", "h", "e", "x", ":", " ", "i", "n", "v", "a", "l", "i", "d", " ", "b", "y", "t", "e", ":", " ", "U", "+">>) \o Literal(Fmt04X(b))
               \o (IF IsPrint(b) THEN <<32, 39, b, 39>> ELSE <<>>)
    ELSE Literal(<<"e", "n", "c", "o", "d", "i", "n", "g", "/", "h", "e", "x", ":", " ", "o", "d", "d", " ", "l", "e", "n", "g", "t", "h", " ", "h", "e", "x", " ", "s", "t", "r", "i", "n", "g">>)

\* what msg.ReadFrom of the SMS library makes of the octets of a record: an
\* error, a message without a concatenation header, a fragment of a
\* concatenated message
ReadFailed == [ok |-> FALSE, err |-> Literal(<<"E", "O", "F">>), Address |-> <<>>, Text |-> <<>>,
               TotalNumber |-> 0, Sequence |-> 0, Tag |-> 0]
ReadSingle == [ok |-> TRUE, err |-> <<>>, Address |-> <<"N">>, Text |-> <<65>>,
               TotalNumber |-> 0, Sequence |-> 0, Tag |-> 0]
ReadFragment == [ok |-> TRUE, err |-> <<>>, Address |-> <<"N">>, Text |-> <<65>>,
                 TotalNumber |-> 2, Sequence |-> 1, Tag |-> 7]
PduParses == {ReadFailed, ReadSingle, ReadFragment}

\* ListSMS of the PDU revision: sender, message, ref, total, seq of a record
\* whose content is pduHex, msg standing for what the library reads
DecodePDU(pduHex, msg) ==
    LET one == [sender |-> <<>>, text |-> <<>>, ref |-> 0, total |-> 1, seq |-> 1]
    IN IF DecodeString(pduHex).err
       THEN [one EXCEPT !.text = Literal(<<"P", "D", "U", " ", "H", "e", "x", " ", "D", "e", "c", "o", "d", "e", " ", "E", "r", "r", "o", "r", ":", " ">>) \o HexError(pduHex)
                                    \o Literal(<<" ", "R", "a", "w", ":", " ">>) \o Literal(pduHex)]
       ELSE IF ~msg.ok
       THEN [one EXCEPT !.text = Literal(<<"P", "D", "U", " ", "D", "e", "c", "o", "d", "e", " ", "E", "r", "r", "o", "r", ":", " ">>) \o msg.err
                                    \o Literal(<<" ", "R", "a", "w", ":", " ">>) \o Literal(pduHex)]
       ELSE IF msg.TotalNumber > 0 /\ msg.Sequence > 0
       THEN [sender |-> msg.Address, text |-> msg.Text, ref |-> msg.Tag,
             total |-> msg.TotalNumber, seq |-> msg.Sequence]
       ELSE [one EXCEPT !.sender = msg.Address, !.text = msg.Text]

\* content := strings.TrimSpace(strings.TrimSuffix(strings.TrimSpace(lines[1]), respOK))
Content(rest) == TrimSpace(TrimSuffix(TrimSpace(rest), respOK))

\* the first loop of ListSMS on one chunk of the response: no part when the
\* chunk has no second line or too few fields, else the part of the record
Record(r, chunk, msg) ==
    LET lines == SplitN(chunk)
        fields == SplitOn(TrimSpace(lines[1]), <<",">>)
        content == Content(lines[2])
        idx == AtoiOrZero(TrimSpace(fields[1]))
    IN IF Len(lines) < 2 \/ Len(fields) < (IF r = "pdu" THEN 2 ELSE 5) THEN <<>>
       ELSE IF r = "pdu"
       THEN LET d == DecodePDU(content, msg) IN
            <<[Index |-> idx, Number |-> d.sender, Message |-> d.text,
               ref |-> d.ref, total |-> d.total, seq |-> d.seq]>>
       ELSE LET d == decodeHexSMS(content) IN
            <<[Index |-> idx, Number |-> TrimQuotes(fields[3]), Message |-> d.text,
               ref |-> d.ref, total |-> d.total, seq |-> d.seq]>>

\* parts: the records of the chunks from the second on, msgs[k] standing for
\* what the library reads of the k-th of them
RECURSIVE PartsFrom(_, _, _, _)
PartsFrom(r, chunks, msgs, k) ==
    IF k > Len(chunks) THEN <<>>
    ELSE Record(r, chunks[k], msgs[k - 1]) \o PartsFrom(r, chunks, msgs, k + 1)

PartsOf(r, resp, msgs) == PartsFrom(r, SplitOn(resp, <<"+", "C", "M", "G", "L", ":", " ">>), msgs, 2)

\* the line of a record with index k that goes before its content: in text
\* mode index, status, sender, name, time; in PDU mode index, status, name,
\* length
Meta(r, k) ==
    IF r = "pdu" THEN Itoa(k) \o <<",", "1", ",", ",", "2", "0">>
    ELSE Itoa(k) \o <<",", "\"", "R", "\"", ",", "\"", "N", "\"", ",", ",", "\"", "T", "\"">>

\* a payload that decodes to the letter A in text mode
GoodPayload == <<"0", "0", "4", "1">>

\* what the device sends in answer to the listing command when it holds
\* three records, the second of them with the given payload
Listing(r, payload) ==
    LET Rec(k, content) == <<"+", "C", "M", "G", "L", ":", " ">> \o Meta(r, k) \o Crlf \o content \o Crlf
    IN Crlf \o Rec(1, GoodPayload) \o Rec(2, payload) \o Rec(3, GoodPayload)
          \o Crlf \o respOK \o Crlf

\* what SendATCommand can return for the listing command when the device
\* sends that listing: the response with its success token, the response cut
\* short after the last record by a failing Read, or an error of the exchange
ListingOutcomes(payload) ==
    {[resp |-> Received(rev, Listing(rev, payload)), err |-> "none"],
     [resp |-> Partial(SubSeq(Listing(rev, payload), 1, Len(Listing(rev, payload)) - 6)),
      err |-> "none"]}
      \cup {[resp |-> <<>>, err |-> e] : e \in {"timeout", "io"}}

\* ListSMS on that listing: the exchange returned an error, which ListSMS
\* returns with no list, or a response, whose records were decoded and merged
ListSMSPayload ==
    /\ codec.stage = "payload"
    /\ \E o \in ListingOutcomes(codec.hex) :
         IF o.err # "none"
         THEN codec' = [codec EXCEPT !.stage = "failed", !.err = o.err]
         ELSE \E msg \in PduParses :
                LET parts == PartsOf(rev, o.resp, <<ReadSingle, msg, ReadSingle>>)
                IN \E res \in ListSMSResults(parts) :
                      codec' = [codec EXCEPT !.stage = "listed", !.parts = parts,
                                             !.result = res]
    /\ UNCHANGED codecRest

InitListing ==
    /\ Init
    /\ rev \in ModemRevs

NextListing ==
    \/ \E tok \in Tokens : ReceivePayload(tok)
    \/ ListSMSPayload

SpecListing == InitListing /\ [][NextListing]_vars

\* the payload begins like a concatenation header and ends before the first
\* octet of content
ShortForHeader(h) ==
    \/ Len(h) <= 12 /\ Len(h) >= 6 /\ SubSeq(h, 1, 6) = <<"0", "5", "0", "0", "0", "3">>
    \/ Len(h) <= 14 /\ Len(h) >= 6 /\ SubSeq(h, 1, 6) = <<"0", "6", "0", "8", "0", "4">>

\* C20: a record whose payload is not valid hex, or of odd length, or shorter
\* than the header it begins with, is decoded without an error as one part
\* (ref 0, total 1, seq 1) whose text is the payload taken literally; it is in
\* the list ListSMS returns with that text, and so is every other record of
\* the listing.
C20_MalformedOrShortIsLiteral ==
    (codec.stage = "listed"
        /\ (NotHex(codec.hex) \/ Len(codec.hex) % 2 = 1 \/ ShortForHeader(codec.hex)))
    => /\ Len(codec.parts) = 3
       /\ codec.parts[2].Message = Literal(codec.hex)
       /\ codec.parts[2].ref = 0 /\ codec.parts[2].total = 1 /\ codec.parts[2].seq = 1
       /\ \E k \in 1..Len(codec.result) :
             codec.result[k].Index = 2 /\ codec.result[k].Message = Literal(codec.hex)
       /\ \A i \in {1, 3} : \E k \in 1..Len(codec.result) : codec.result[k].Index = i

\* ------------------------------------------------------ GetModemInfo
Quote == "\""

\* extractOperator: the first quoted, non-empty run of characters
extractOperator(response) ==
    LET n == Len(response)
        Opens(i) == /\ response[i] = Quote
                    /\ i + 1 <= n
                    /\ response[i + 1] # Quote
                    /\ \E k \in (i + 2)..n : response[k] = Quote
    IN IF \E i \in 1..n : Opens(i)
       THEN LET i == CHOOSE a \in 1..n : Opens(a) /\ \A b \in 1..(a - 1) : ~Opens(b)
                k == CHOOSE a \in (i + 2)..n :
                         response[a] = Quote /\ \A b \in (i + 2)..(a - 1) : response[b] # Quote
            IN SubSeq(response, i + 1, k - 1)
       ELSE <<>>

\* rePhoneNumber, \+CNUM:.*,"([^"]+)" : the quoted run after the last comma
\* of the +CNUM line that a quote follows
PhoneIn(resp) ==
    LET n == Len(resp)
        pre == <<"+", "C", "N", "U", "M", ":">>
        At(i) == i + 5 <= n /\ SubSeq(resp, i, i + 5) = pre
        Comma(i, j) == /\ j >= i + 6 /\ j + 3 <= n
                       /\ \A b \in (i + 6)..(j - 1) : resp[b] # "\n"
                       /\ resp[j] = "," /\ resp[j + 1] = Quote /\ resp[j + 2] # Quote
                       /\ \E k \in (j + 3)..n : resp[k] = Quote
        Match(i) == At(i) /\ \E j \in 1..n : Comma(i, j)
    IN IF \E i \in 1..n : Match(i)
       THEN LET i == CHOOSE a \in 1..n : Match(a) /\ \A b \in 1..(a - 1) : ~Match(b)
                j == CHOOSE a \in 1..n : Comma(i, a) /\ \A b \in (a + 1)..n : ~Comma(i, b)
                k == CHOOSE a \in (j + 3)..n :
                         resp[a] = Quote /\ \A b \in (j + 3)..(a - 1) : resp[b] # Quote
            IN [found |-> TRUE, number |-> SubSeq(resp, j + 2, k - 1)]
       ELSE [found |-> FALSE, number |-> <<>>]

\* GetPhoneNumber on what SendATCommand(cmdNumber) returned
GetPhoneNumber(o) ==
    IF o.err # "none" THEN [number |-> <<>>, err |-> o.err]
    ELSE IF PhoneIn(o.resp).found THEN [number |-> PhoneIn(o.resp).number, err |-> "none"]
    ELSE [number |-> <<>>, err |-> "not found"]

\* the information line a device answers the query of field f with
InfoLine(f) ==
    IF f = "Operator"
    THEN <<"+", "C", "O", "P", "S", ":", " ", "0", ",", "0", ",", Quote, "N", Quote, ",", "7">>
    ELSE IF f = "PhoneNumber"
    THEN <<"+", "C", "N", "U", "M", ":", " ", Quote, Quote, ",", Quote, "7", Quote, ",", "1">>
    ELSE <<"Q">>

\* the revisions whose GetModemInfo is followed here
IdentRevs == {"services", "modem"}

\* what SendATCommand can return for the query of field f: the response the
\* exchange makes of the answer with its line, of the bare success token or of
\* the error token; what had been read of the answer, its line or less, when
\* a Read failed before a terminal token came, returned without an error; or
\* an error of the exchange
Outcomes(f) ==
    {[resp |-> Received(rev, sent), err |-> "none"] :
        sent \in {Answer(InfoLine(f)), Crlf \o respOK \o Crlf, Crlf \o respError \o Crlf}}
      \cup {[resp |-> Partial(cut), err |-> "none"] :
              cut \in {Crlf \o InfoLine(f) \o Crlf, Crlf}}
      \cup {[resp |-> <<>>, err |-> e] :
              e \in IF rev \in DeadlineRevs THEN {"timeout", "io"} ELSE {"EOF", "io"}}

\* the value GetModemInfo stores in field f after outcome o, old being there
Stored(f, o, old) ==
    IF f = "PhoneNumber" THEN GetPhoneNumber(o).number
    ELSE IF o.err # "none" THEN old
    ELSE IF f = "Operator" THEN extractOperator(o.resp)
    ELSE extractValue(o.resp)

\* the fields GetModemInfo may query next: the range over the map of four in
\* any order, then the operator, then the phone number
NextFields ==
    IF MapFields \ ident.asked # {} THEN MapFields \ ident.asked
    ELSE IF "Operator" \notin ident.asked THEN {"Operator"}
    ELSE IF "PhoneNumber" \notin ident.asked THEN {"PhoneNumber"}
    ELSE {}

identRest == <<rev, sms, codec, signal, wire, ws, poolVars, sLock, lst, caller, busVars>>

\* GetModemInfo: info := &ModemInfo{...}
GetModemInfo ==
    /\ ident.stage = "idle"
    /\ ident' = [ident EXCEPT !.stage = "run"]
    /\ UNCHANGED identRest

\* GetModemInfo: one sub-query and the assignment that follows it
InfoQuery(f, o) ==
    /\ ident.stage = "run"
    /\ f \in NextFields
    /\ ident' = [ident EXCEPT !.asked = @ \cup {f}, !.got[f] = o,
                              !.info[f] = Stored(f, o, @)]
    /\ UNCHANGED identRest

\* GetModemInfo: return info, nil
InfoReturn ==
    /\ ident.stage = "run"
    /\ NextFields = {}
    /\ ident' = [ident EXCEPT !.stage = "done", !.err = "none"]
    /\ UNCHANGED identRest

InitIdent == Init /\ rev \in IdentRevs

NextIdent ==
    \/ GetModemInfo
    \/ \E f \in Fields : \E o \in Outcomes(f) : InfoQuery(f, o)
    \/ InfoReturn

SpecIdent == InitIdent /\ [][NextIdent]_vars

\* a sub-query that failed: the exchange returned an error, or the device
\* answered with the error token
SubQueryFailed(o) == o.err # "none" \/ Contains(o.resp, respError)

\* C22: GetModemInfo returns without an error, having issued all six
\* sub-queries whatever their outcomes, and every field whose sub-query failed
\* is empty while every field whose sub-query was answered holds its answer.
C22_IdentityNeverFails ==
    ident.stage = "done" =>
        /\ ident.err = "none"
        /\ ident.asked = Fields
        /\ \A f \in Fields :
             /\ SubQueryFailed(ident.got[f]) => ident.info[f] = <<>>
             /\ ident.got[f] = [resp |-> Received(rev, Answer(InfoLine(f))), err |-> "none"]
                   => ident.info[f] = (IF f \in MapFields THEN <<"Q">>
                                       ELSE IF f = "Operator" THEN <<"N">> ELSE <<"7">>)

\* ------------------------------------------------------ the listener and the bus
\* One active session with its listener on a link that delivers notifications
\* and read errors, and the subscribers of the event bus.
InitListen == Active({1})

NextListen ==
    \/ \E p \in Paths : ListenerLock(p)
    \/ \E p \in Paths : ListenerReadData(p)
    \/ \E p \in Paths : ListenerReadErr(p)
    \/ \E p \in Paths : ListenerSleep(p)
    \/ \E p \in Paths : BroadcastBegin(p)
    \/ \E p \in Paths : BroadcastSend(p)
    \/ \E p \in Paths : BroadcastEnd(p)
    \/ \E b \in SubBuffers : Subscribe(b)
    \/ \E ch \in Chans : Receive(ch)

SpecListen == InitListen /\ [][NextListen]_vars

\* C23: a read that returns an error sends the listener to its backoff with
\* the session lock released; from the backoff it goes back to the head of
\* its loop and to no other place; a started listener never exits; and a read
\* that returns a chunk, before or after any number of errors, is followed by
\* the Broadcast of that chunk to every subscriber.
C23_ListenerRetries ==
    [][\A p \in Paths :
         /\ (lst[p].pc = "read" /\ lst'[p].pc # "read" /\ lst'[p].n = lst[p].n)
               => (lst'[p].pc = "sleep" /\ sLock'[p] = "free")
         /\ (lst[p].pc = "sleep" /\ lst'[p] # lst[p])
               => lst'[p] = [lst[p] EXCEPT !.pc = "lock", !.err = FALSE]
         /\ lst[p].pc # "off" => lst'[p].pc # "off"
         /\ (lst[p].pc = "read" /\ lst'[p].n > lst[p].n) => lst'[p].pc = "bcast"
         /\ (lst[p].pc = "bcast" /\ lst'[p] # lst[p])
               => (lst'[p].pc = "send" /\ lst'[p].todo = elPool
                      /\ lst'[p].chunk = lst[p].chunk)]_vars

\* the listener is in its backoff after a read error that followed a chunk,
\* and more chunks can be read
C23_Witness ==
    \E p \in Paths :
        /\ lst[p].pc = "sleep" /\ lst[p].err
        /\ lst[p].n > 0 /\ Emitted < MaxEmit
        /\ ENABLED ListenerSleep(p)

\* ------------------------------------------------------ shutdown of a session
\* the shutdown of the session of p: its serial handle is closed; from then
\* on a Read of the handle returns an error
Shutdown(p) ==
    /\ p \in mPool
    /\ portOpen[p]
    /\ portOpen' = [portOpen EXCEPT ![p] = FALSE]
    /\ UNCHANGED <<env, present, mPool, mLock, started, opens, failed, scans,
                   sLock, lst, caller, busVars>>

\* the scheduler runs every goroutine that can take a step
FairListen ==
    \A p \in Paths :
        /\ WF_vars(ListenerLock(p))
        /\ WF_vars(ListenerReadData(p))
        /\ WF_vars(ListenerReadErr(p))
        /\ WF_vars(ListenerSleep(p))
        /\ WF_vars(BroadcastBegin(p))
        /\ WF_vars(BroadcastSend(p))
        /\ WF_vars(BroadcastEnd(p))

NextClose ==
    \/ NextListen
    \/ \E p \in Paths : Shutdown(p)

SpecClose == InitListen /\ [][NextClose]_vars /\ FairListen

\* C24: once the handle of a session is closed, the next Read of its listener
\* returns an error, and the listener's loop comes to an end.
C24_ListenerEndsAfterClose ==
    /\ [][\A p \in Paths :
            (~portOpen[p] /\ lst[p].pc = "read" /\ lst'[p] # lst[p])
                => (lst'[p].err /\ lst'[p].n = lst[p].n)]_vars
    /\ \A p \in Paths : (started[p] > 0 /\ ~portOpen[p]) ~> (lst[p].pc = "off")

\* ------------------------------------------------------ failures of the link
\* the Write of the command failed, or a Read of the response returned an
\* error other than the end of the read timeout
LinkFailure(c) ==
    \/ CmdWrite(c) /\ caller'[c].pc = "cmd_done"
    \/ CmdReadErr(c)

\* C25: a failure of the link during a command exchange is returned as an
\* error to the caller of that command and leaves the session failed: out of
\* the registry or with its handle closed, so that it takes no more commands.
C25_LinkFailureIsFatal ==
    [][\A c \in Callers :
         LinkFailure(c) =>
            /\ caller'[c].ret.err # "none"
            /\ Path(c) \notin mPool' \/ ~portOpen'[Path(c)]]_vars

\* ------------------------------------------------------ returns of the exchange
\* the exchange of c returns in this step
Returns(c) == caller[c].pc \in ExchangePcs /\ caller'[c].pc = "cmd_done"

\* C26: every return of a command exchange (terminal token, timeout, failed
\* write, failed read) releases the session mutex and changes the state of no
\* other caller; the mutex is held by a caller only while its exchange is
\* going on, and whenever it is free a waiting exchange and the listener can
\* take it.
C26_EveryReturnUnlocks ==
    /\ [][\A c \in Callers :
            Returns(c) =>
               /\ sLock'[Path(c)] = "free"
               /\ \A d \in Callers \ {c} : caller'[d] = caller[d]]_vars
    /\ [](\A p \in Paths :
            /\ sLock[p] \in Callers => InExchange(sLock[p], p)
            /\ sLock[p] = "free" =>
                 /\ \A c \in Callers :
                      (caller[c].pc = "cmd_lock" /\ Path(c) = p) => ENABLED CmdLock(c)
                 /\ lst[p].pc = "lock" => ENABLED ListenerLock(p))

\* a command has timed out and its caller has the error, while the other
\* caller's exchange on the same session is reading
C26_Witness ==
    \E c \in Callers, d \in Callers :
        /\ c # d
        /\ caller[c].pc = "cmd_done" /\ caller[c].ret.err = "timeout"
        /\ caller[d].pc = "cmd_read" /\ Path(d) = Path(c)
        /\ sLock[Path(c)] = d

\* ------------------------------------------------------ the framing of a response
\* The command exchanges of two request handlers on one active session, over
\* a link that also delivers the line breaks of a response.
NextFrame ==
    \/ \E c \in Callers : GetService(c)
    \/ \E c \in Callers : HandlerSend(c)
    \/ \E c \in Callers : HandlerReject(c)
    \/ \E c \in Callers : HandlerDone(c)
    \/ \E c \in Callers : CmdLock(c)
    \/ \E c \in Callers : CmdWrite(c)
    \/ \E c \in Callers : CmdLoop(c)
    \/ \E c \in Callers : CmdReadData(c)
    \/ \E c \in Callers : CmdReadBlank(c)
    \/ \E c \in Callers : CmdReadEOF(c)
    \/ \E c \in Callers : CmdReadErr(c)
    \/ \E c \in Callers : CmdSleep(c)

SpecFrame == InitChan /\ [][NextFrame]_vars

\* the steps of an exchange in their order: lock; flush and write; then the
\* read loop, left only by a return
ExchangeOrder ==
    {<<"cmd_lock", "cmd_write">>, <<"cmd_write", "cmd_loop">>, <<"cmd_write", "cmd_done">>,
     <<"cmd_loop", "cmd_read">>, <<"cmd_loop", "cmd_done">>, <<"cmd_read", "cmd_loop">>,
     <<"cmd_read", "cmd_sleep">>, <<"cmd_read", "cmd_done">>, <<"cmd_sleep", "cmd_loop">>}

InOrder(c) ==
    (caller[c].pc \in ExchangePcs \cup {"cmd_lock"} /\ caller'[c].pc # caller[c].pc)
        => /\ <<caller[c].pc, caller'[c].pc>> \in ExchangeOrder
           /\ caller[c].pc = "cmd_lock" => sLock'[Path(c)] = c

\* the Read of c returned bytes in this step
ReadBytes(c) ==
    /\ caller[c].pc = "cmd_read"
    /\ \/ caller'[c].pc = "cmd_loop"
       \/ caller'[c].pc = "cmd_done" /\ caller'[c].ret.err = "none"
                                     /\ IsTerminal(caller'[c].ret.resp)

\* s begins with t and is longer
Extends(s, t) == Len(s) > Len(t) /\ SubSeq(s, 1, Len(t)) = t

\* what a Read can deliver
Deliverable == Chunks \cup {Crlf}

\* no exchange goes on reading with a terminal token in its response
NoTokenPending ==
    \A c \in Callers :
        caller[c].pc \in {"cmd_loop", "cmd_read", "cmd_sleep"} => ~IsTerminal(caller[c].resp)

\* C27 as stated: the steps of an exchange come in the order lock, flush and
\* write, read; after every read that returned bytes the exchange either goes
\* on, its response without a terminal token, or returns at once, and what it
\* returns is the response accumulated so far with the bytes just read.
C27_ReturnsAccumulated ==
    /\ []NoTokenPending
    /\ [][\A c \in Callers :
            /\ InOrder(c)
            /\ (ReadBytes(c) /\ caller'[c].pc = "cmd_done")
                  => Extends(caller'[c].ret.resp, caller[c].resp)]_vars

\* C27 amended: the same, but what package modem returns is the accumulated
\* response with the white space at its two ends removed; package services
\* returns it as accumulated.
C27_ReturnsAccumulatedTrimmed ==
    /\ []NoTokenPending
    /\ [][\A c \in Callers :
            /\ InOrder(c)
            /\ (ReadBytes(c) /\ caller'[c].pc = "cmd_done")
                  => \E chunk \in Deliverable :
                        /\ IsTerminal(caller[c].resp \o chunk)
                        /\ caller'[c].ret.resp =
                              IF rev \in DeadlineRevs THEN TrimSpace(caller[c].resp \o chunk)
                              ELSE caller[c].resp \o chunk]_vars

\* an exchange has returned, after a line break and then the prompt, the
\* response with the line break in it
C27_Witness ==
    \E c \in Callers :
        /\ caller[c].pc = "cmd_done"
        /\ caller[c].ret = [resp |-> Crlf \o respPrompt, err |-> "none"]

\* ------------------------------------------------------ creation of a session
\* the liveness command of c has returned and has not succeeded: it failed,
\* timed out, or its response lacks the success token
Unverified(c) ==
    /\ caller[c].pc = "cmd_done"
    /\ caller[c].cont = "check"
    /\ ~(caller[c].ret.err = "none" /\ Contains(caller[c].ret.resp, respOK))

\* C28: when the liveness command has not succeeded, the next step of the
\* creation closes the handle opened for the path and records the failure,
\* registers nothing, starts no listener and sends no setup command; setup
\* commands go only to registered sessions, and a path that is not registered
\* has no listener.
C28_FailedCheckClosesHandle ==
    /\ [][\A c \in Callers :
            (Unverified(c) /\ caller'[c] # caller[c]) =>
               /\ ~portOpen'[Path(c)]
               /\ Path(c) \in failed'
               /\ mPool' = mPool
               /\ started' = started /\ lst' = lst
               /\ caller'[c].pc = "scan"]_vars
    /\ [](/\ \A c \in Callers : caller[c].cont \in {"echo", "mode"} => Path(c) \in mPool
          /\ \A p \in Paths \ mPool : started[p] = 0 /\ lst[p].pc = "off")

\* the device answered the liveness command with the error token: the
\* response came without an error of the exchange but lacks the success token
C28_Witness ==
    \E c \in Callers :
        /\ Unverified(c)
        /\ caller[c].ret = [resp |-> respError, err |-> "none"]
        /\ portOpen[Path(c)]
        /\ ENABLED CheckFail(c)

\* ------------------------------------------------------ life of a session
\* the stages of the creation of a session, as the command in hand: none
\* (Opening), the liveness command (Verifying), the two setup commands
\* (Initialized); Active begins when the listener is started
Lifecycle ==
    {<<"none", "check">>, <<"check", "echo">>, <<"check", "none">>,
     <<"echo", "mode">>, <<"mode", "none">>}

\* the creation of the session of p is at its second setup command, which
\* has returned
SetupOver(c, p) == Path(c) = p /\ caller[c].pc = "cmd_done" /\ caller[c].cont = "mode"

\* C29: the creation of a session goes through its stages in order; a
\* listener is started only for a registered (verified) session, only when
\* its second setup command has returned, and only if it has none; the
\* return of a setup command, whatever its result, neither unregisters the
\* session nor closes its handle; and whenever the registry is not being
\* changed by a Scan every registered session has exactly one listener.
C29_LifecycleInOrder ==
    /\ [][/\ \A c \in Callers :
               /\ caller'[c].cont # caller[c].cont
                     => <<caller[c].cont, caller'[c].cont>> \in Lifecycle
               /\ (caller[c].pc = "cmd_done" /\ caller[c].cont \in {"echo", "mode"}
                      /\ caller'[c] # caller[c])
                     => (mPool' = mPool /\ failed' = failed /\ portOpen'[Path(c)])
          /\ \A p \in Paths :
               started'[p] # started[p] =>
                  /\ started[p] = 0 /\ started'[p] = 1
                  /\ p \in mPool
                  /\ \E c \in Callers : SetupOver(c, p)
                  /\ lst'[p].pc = "lock"]_vars
    /\ [](\A p \in Paths :
            /\ started[p] <= 1
            /\ started[p] = 1 => (p \in mPool /\ lst[p].pc # "off")
            /\ (mLock = "free" /\ p \in mPool) => started[p] = 1)

\* C29 as stated, without regard to who holds the registry: the stages in
\* order, the listener started only for a verified session whose setup
\* commands have returned, a setup command that fails leaves the session as
\* it is, and every registered session has exactly one listener.
C29_RegisteredHasOneListener ==
    /\ [][/\ \A c \in Callers :
               /\ caller'[c].cont # caller[c].cont
                     => <<caller[c].cont, caller'[c].cont>> \in Lifecycle
               /\ (caller[c].pc = "cmd_done" /\ caller[c].cont \in {"echo", "mode"}
                      /\ caller'[c] # caller[c])
                     => (mPool' = mPool /\ failed' = failed /\ portOpen'[Path(c)])
          /\ \A p \in Paths :
               started'[p] # started[p] =>
                  /\ started[p] = 0 /\ started'[p] = 1
                  /\ p \in mPool
                  /\ \E c \in Callers : SetupOver(c, p)
                  /\ lst'[p].pc = "lock"]_vars
    /\ [](\A p \in Paths :
            /\ started[p] <= 1
            /\ started[p] = 1 => (p \in mPool /\ lst[p].pc # "off")
            /\ p \in mPool => started[p] = 1)

\* one session is registered and has its listener, and the second setup
\* command of another has returned with an error
C29_Witness ==
    \E p \in Paths, q \in Paths, c \in Callers :
        /\ p # q
        /\ p \in mPool /\ started[p] = 1
        /\ q \in mPool /\ started[q] = 0
        /\ SetupOver(c, q)
        /\ caller[c].ret.err # "none"

\* ------------------------------------------------------ what the listener publishes
\* the text "[identifier] " followed by chunk
Tagged(p, chunk) == <<"[">> \o Name(p) \o <<"]", " ">> \o chunk

\* the messages in the queues of the subscribers
Queued == UNION {{chBuf[ch][i] : i \in 1..Len(chBuf[ch])} : ch \in Chans}

\* One active session of package modem with its listener, made with or
\* without a broadcast function, and the subscribers of the event bus.
InitPublish == ActiveOn({1}, BOOLEAN) /\ rev \in ModemRevs

NextPublish ==
    \/ \E p \in Paths : ListenerLock(p)
    \/ \E p \in Paths : ListenerReadData(p)
    \/ \E p \in Paths : ListenerReadErr(p)
    \/ \E p \in Paths : ListenerSleep(p)
    \/ \E p \in Paths : BroadcastBegin(p)
    \/ \E p \in Paths : BroadcastSend(p)
    \/ \E p \in Paths : BroadcastEnd(p)
    \/ \E b \in SubBuffers : Subscribe(b)
    \/ \E ch \in Chans : Receive(ch)

SpecPublish == InitPublish /\ [][NextPublish]_vars

\* C30: every chunk a Read of the listener returns, which is not empty, is
\* taken to Broadcast, and Broadcast is called with nothing else; Broadcast
\* hands it to each subscriber registered at that moment at most once and the
\* listener then goes back to reading, so that one chunk is published once;
\* the message is the text "[identifier] " followed by the chunk as read; and
\* a Read that returned no bytes changes nothing on the bus.
C30_EveryChunkPublishedOnceTagged ==
    /\ [][\A p \in Paths :
            /\ (lst[p].pc = "read" /\ lst'[p].n > lst[p].n)
                  => /\ lst'[p].pc = "bcast"
                     /\ lst'[p].chunk \in Unsolicited
            /\ (lst'[p].pc = "bcast" /\ lst[p].pc # "bcast")
                  => /\ lst[p].pc = "read"
                     /\ lst'[p].n = lst[p].n + 1
                     /\ lst'[p].chunk # <<>>
            /\ (lst[p].pc = "bcast" /\ lst'[p] # lst[p])
                  => lst'[p] = [lst[p] EXCEPT !.pc = "send", !.todo = elPool]
            /\ (lst[p].pc = "send" /\ lst'[p] # lst[p])
                  => \/ /\ lst[p].todo = {}
                        /\ lst'[p] = [lst[p] EXCEPT !.pc = "lock", !.chunk = <<>>]
                        /\ chBuf' = chBuf
                     \/ \E ch \in lst[p].todo :
                          /\ lst'[p] = [lst[p] EXCEPT !.todo = @ \ {ch}]
                          /\ \/ chBuf' = chBuf
                             \/ chBuf' = [chBuf EXCEPT ![ch] =
                                   Append(@, [id |-> <<p, lst[p].n>>,
                                              text |-> Tagged(p, lst[p].chunk)])]
            /\ (lst[p].pc = "read" /\ lst'[p].pc = "sleep")
                  => (lst'[p].n = lst[p].n /\ busVars' = busVars)
            /\ (\A q \in Paths : lst[q].pc # "send")
                  => \A ch \in Chans : Len(chBuf'[ch]) <= Len(chBuf[ch])]_vars
    /\ [](\A m \in Queued :
            \E p \in Paths, chunk \in Unsolicited : m.text = Tagged(p, chunk))

\* ------------------------------------------------------ groups without a first part
\* C31: every group of fragments with total > 1 of a listing gives exactly one
\* entry of the result; the entry has the index and sender of the group's
\* seq = 1 member when the group has one, and a group without one is still in
\* the result, so that the text of every listed fragment is in the result.
C31_EveryGroupEmitted ==
    sms.done =>
        \A i \in 1..Len(sms.parts) :
            sms.parts[i].total > 1 =>
                /\ Cardinality(Carrying(GroupOf(i))) = 1
                /\ \E k \in 1..Len(sms.result) : i \in Src(sms.result[k])
                /\ (\E j \in GroupOf(i) : sms.parts[j].seq = 1) =>
                      \A k \in Carrying(GroupOf(i)) :
                          \E j \in GroupOf(i) :
                              /\ sms.parts[j].seq = 1
                              /\ sms.result[k].Index = sms.parts[j].Index
                              /\ sms.result[k].Number = sms.parts[j].Number

\* ------------------------------------------------- concatenation headers
\* the i-th octet a payload of hex digits stands for
Octet(h, i) == 16 * HexVal(h[2 * i - 1]) + HexVal(h[2 * i])
Octets(h) == Len(h) \div 2
\* the payload is hex digits, two for every octet
WellFormed(h) == ~NotHex(h) /\ Len(h) % 2 = 0
\* the octets after the first k, read as UTF-16BE
TextFrom(h, k) ==
    Utf16Decode([i \in 1..((Octets(h) - k) \div 2) |->
                    Octet(h, k + 2 * i - 1) * 256 + Octet(h, k + 2 * i)])
\* the first octets of the payload are 05 00 03 ref total seq
Begins6(h) == Len(h) >= 12 /\ SubSeq(h, 1, 6) = <<"0", "5", "0", "0", "0", "3">>
\* the first octets of the payload are 06 08 04 refHi refLo total seq
Begins7(h) == Len(h) >= 14 /\ SubSeq(h, 1, 6) = <<"0", "6", "0", "8", "0", "4">>
EvenAfter(h, k) == (Octets(h) - k) % 2 = 0

\* C32 as stated: a payload whose first octets are 05 00 03 ref total seq or
\* 06 08 04 refHi refLo total seq comes back with ref, total, seq of that
\* header (ref = refHi*256 + refLo) and with the octets after the header read
\* as UTF-16BE; every other payload comes back with ref 0, total 1, seq 1 and
\* the whole payload read as UTF-16BE.
C32_HeaderStripped ==
    (codec.stage = "decoded" /\ WellFormed(codec.hex)) =>
        LET h == codec.hex IN
        /\ Begins6(h) =>
              /\ codec.out.ref = Octet(h, 4)
              /\ codec.out.total = Octet(h, 5)
              /\ codec.out.seq = Octet(h, 6)
              /\ EvenAfter(h, 6) => codec.out.text = TextFrom(h, 6)
        /\ Begins7(h) =>
              /\ codec.out.ref = Octet(h, 4) * 256 + Octet(h, 5)
              /\ codec.out.total = Octet(h, 6)
              /\ codec.out.seq = Octet(h, 7)
              /\ EvenAfter(h, 7) => codec.out.text = TextFrom(h, 7)
        /\ (~Begins6(h) /\ ~Begins7(h)) =>
              /\ codec.out.ref = 0 /\ codec.out.total = 1 /\ codec.out.seq = 1
              /\ EvenAfter(h, 0) => codec.out.text = TextFrom(h, 0)

\* C32: a payload of hex digits whose first octets are 05 00 03 ref total seq
\* or 06 08 04 refHi refLo total seq, followed by at least one octet and by an
\* even number of octets, comes back with ref, total, seq of that header
\* (ref = refHi*256 + refLo) and with the octets after the header read as
\* UTF-16BE; with an odd number of octets after the header it comes back as
\* literal text with ref 0, total 1, seq 1; every other payload of hex digits,
\* a bare header included, comes back with ref 0, total 1, seq 1 and the whole
\* payload read as UTF-16BE (as literal text when its octets are odd in number).
C32_HeaderStrippedBeforeContent ==
    (codec.stage = "decoded" /\ WellFormed(codec.hex)) =>
        LET h == codec.hex
            Has6 == Begins6(h) /\ Octets(h) > 6
            Has7 == Begins7(h) /\ Octets(h) > 7
            k == IF Has6 THEN 6 ELSE 7
        IN
        /\ (Has6 /\ EvenAfter(h, 6)) =>
              codec.out = [text |-> TextFrom(h, 6), ref |-> Octet(h, 4),
                           total |-> Octet(h, 5), seq |-> Octet(h, 6)]
        /\ (Has7 /\ EvenAfter(h, 7)) =>
              codec.out = [text |-> TextFrom(h, 7), ref |-> Octet(h, 4) * 256 + Octet(h, 5),
                           total |-> Octet(h, 6), seq |-> Octet(h, 7)]
        /\ ((Has6 \/ Has7) /\ ~EvenAfter(h, k)) =>
              codec.out = [text |-> Literal(h), ref |-> 0, total |-> 1, seq |-> 1]
        /\ (~Has6 /\ ~Has7) =>
              codec.out = [text |-> IF EvenAfter(h, 0) THEN TextFrom(h, 0) ELSE Literal(h),
                           ref |-> 0, total |-> 1, seq |-> 1]

\* a payload with the 7-octet header, a reference above 255 and one character
\* of content has been decoded
C32_Witness ==
    /\ codec.stage = "decoded"
    /\ WellFormed(codec.hex)
    /\ Begins7(codec.hex)
    /\ codec.out.ref > 255
    /\ codec.out.seq = 65
    /\ codec.out.text = <<65>>

\* ------------------------------------------------------ the registry
\* C33: a path that is in m.pool stays in m.pool, and is not opened again, so
\* that the session registered for it is the one NewSerialService made for it
\* at first, whatever Scan, GetService, command or link does in the step.
C33_RegistryOnlyGrows ==
    [][\A p \in mPool : p \in mPool' /\ opens'[p] = opens[p]]_vars

\* a second Scan has passed over a path registered before it, and an open or
\* a verification has failed
C33_Witness ==
    \E c \in Callers, p \in Paths :
        /\ ScanOver(c)
        /\ scans = 2
        /\ p \in caller[c].pool0
        /\ p \in caller[c].cands
        /\ p \in mPool
        /\ opens[p] = 1
        /\ failed # {}

\* NewSerialService returns a session to the Scan of c in this step
Registers(c) ==
    /\ caller[c].pc = "cmd_done" /\ caller[c].cont = "check"
    /\ caller'[c].cont = "echo"

\* C34: at most one caller is inside Scan, and it holds m.mu; a session is
\* made only for a path that has no session and no listener yet, so that no
\* path gets a second session; and no path is given a second listener.
C34_OneSessionPerPath ==
    /\ [](\A c \in Callers, d \in Callers : (Scanning(c) /\ Scanning(d)) => c = d)
    /\ [](\A c \in Callers : Scanning(c) => mLock = c)
    /\ [](\A p \in Paths : started[p] <= 1 /\ (lst[p].pc # "off" => started[p] = 1))
    /\ [][\A c \in Callers : Registers(c) =>
             /\ Path(c) \notin mPool
             /\ started[Path(c)] = 0
             /\ lst[Path(c)].pc = "off"
             /\ mPool' = mPool \cup {Path(c)}]_vars

\* two Scans have run, the first made the session of path 1 and the second
\* the session of path 2, and each path has its one listener
C34_Witness ==
    \E c \in Callers :
        /\ ScanOver(c)
        /\ scans = 2
        /\ caller[c].pool0 = {1}
        /\ mPool = Paths
        /\ \A p \in Paths : started[p] = 1 /\ opens[p] = 1

\* ------------------------------------------------ Broadcast and cancel
\* C35: a channel that a Broadcast has still to visit is not closed, no send
\* on a closed channel is ever made, and from the step in which cancel closes
\* a channel on nothing more is put into it: its queue only shrinks and the
\* set of messages it was given stays as it is.
C35_NoDeliveryAfterCancel ==
    /\ [](\A p \in Paths : lst[p].pc = "send" =>
            \A ch \in lst[p].todo : ~chClosed[ch] /\ ch \in elPool)
    /\ [](~panicked)
    /\ [][\A ch \in Chans : (chClosed[ch] \/ chClosed'[ch]) =>
             /\ Len(chBuf'[ch]) <= Len(chBuf[ch])
             /\ chGot'[ch] = chGot[ch]]_vars

\* a Broadcast is under way that began after the cancel of a channel which
\* still holds a message; the channel of a later subscriber is still to be
\* visited
C35_Witness ==
    \E p \in Paths, ch \in Chans, k \in Chans :
        /\ lst[p].pc = "send"
        /\ chClosed[ch] /\ cancels[ch] >= 1
        /\ chBuf[ch] # <<>>
        /\ Msg(p).id \notin chGot[ch] \cup chMiss[ch]
        /\ k \in lst[p].todo

\* ------------------------------------------------------------- SendSMS
\* One active session with its listener, and one handler that sends
\* messages.
SmsCaller == "a"

NextSms ==
    \/ GetService(SmsCaller)
    \/ HandlerReject(SmsCaller)
    \/ SendSMS(SmsCaller)
    \/ SendSMSSubmitted(SmsCaller)
    \/ SendSMSReturn(SmsCaller)
    \/ SendSMSAnswer(SmsCaller)
    \/ CmdLock(SmsCaller)
    \/ CmdWrite(SmsCaller)
    \/ CmdLoop(SmsCaller)
    \/ CmdReadData(SmsCaller)
    \/ CmdReadEOF(SmsCaller)
    \/ CmdReadErr(SmsCaller)
    \/ CmdSleep(SmsCaller)
    \/ \E p \in Paths : ListenerLock(p)
    \/ \E p \in Paths : ListenerReadData(p)
    \/ \E p \in Paths : ListenerReadErr(p)
    \/ \E p \in Paths : ListenerSleep(p)
    \/ \E p \in Paths : BroadcastBegin(p)
    \/ \E p \in Paths : BroadcastEnd(p)

SpecSms == InitChan /\ [][NextSms]_vars

\* SendSMS of c is between the return of its AT+CMGS exchange and the write of
\* its message
BetweenExchanges(c) ==
    caller[c].cont = "payload" /\ caller[c].pc \in {"cmd_lock", "cmd_write"}

\* C36: while a SendSMS is between the return of its AT+CMGS exchange and the
\* write of its message, no other caller is inside a command exchange on that
\* link and the listener is not reading it.
C36_SendSmsAtomic ==
    \A c \in Callers : BetweenExchanges(c) =>
        LinkUsers(Path(c)) \subseteq {c}

\* the message is written by c in this step
WritesPayload(c) ==
    /\ caller[c].cont = "payload"
    /\ caller[c].pc = "cmd_write"
    /\ caller'[c].pc = "cmd_loop"

\* the answer to AT+CMGS that SendSMS of c got
Submission(c) == caller[c].ret

\* C37: the message is written only when AT+CMGS was answered with the prompt
\* and without the error token; and a SendSMS whose AT+CMGS failed, timed out
\* or was answered with the error token ends with an error.
C37_PayloadOnlyAfterPrompt ==
    [][\A c \in Callers :
          /\ WritesPayload(c) =>
                /\ Submission(c).err = "none"
                /\ Contains(Submission(c).resp, respPrompt)
                /\ ~Contains(Submission(c).resp, respError)
          /\ (/\ caller[c].pc = "cmd_done" /\ caller[c].cont = "submit"
              /\ (caller[c].ret.err # "none" \/ Contains(caller[c].ret.resp, respError))
              /\ caller'[c] # caller[c])
             => (caller'[c].pc = "sms_done" /\ caller'[c].ret.err # "none")]_vars

\* ------------------------------------------- the link, byte by byte
\* One session, one caller sending commands one after the other. Every chunk
\* the device sends is marked with the number of the command it answers; the
\* device takes its time, so that an answer can still be on its way when the
\* exchange of its command has returned.
wireRest == <<rev, sms, codec, signal, ident, ws, poolVars, sLock, lst, caller, busVars>>

\* what a device answers to command n, chunk by chunk
DeviceReplies(n) ==
    {<<[of |-> n, text |-> <<"x">>], [of |-> n, text |-> respOK]>>,
     <<[of |-> n, text |-> respError]>>}

\* the text of a sequence of chunks
RECURSIVE TextOf(_)
TextOf(q) == IF q = <<>> THEN <<>> ELSE Head(q).text \o TextOf(Tail(q))

\* a return of sendRawCommand
WireReturn(r) == wire' = [wire EXCEPT !.pc = "idle", !.ret = r, !.resp = <<>>, !.elapsed = 0]

\* sendRawCommand: s.Lock(), port.Flush() drops what has arrived and was not
\* read, port.Write sends the command and the device will answer it
WireSend ==
    /\ wire.pc = "idle"
    /\ wire.cmd < MaxCmds
    /\ \E ok \in BOOLEAN :
         IF ok
         THEN \E reply \in DeviceReplies(wire.cmd + 1) :
                 wire' = [wire EXCEPT !.pc = "loop", !.cmd = @ + 1, !.buf = <<>>,
                                      !.dev = @ \o reply, !.resp = <<>>, !.elapsed = 0]
         ELSE wire' = [wire EXCEPT !.cmd = @ + 1, !.buf = <<>>,
                                   !.ret = [resp |-> <<>>, err |-> "io"]]
    /\ UNCHANGED wireRest

\* the next chunk of the device reaches the input buffer of the port
WireArrive ==
    /\ wire.dev # <<>>
    /\ wire' = [wire EXCEPT !.dev = Tail(@), !.buf = Append(@, Head(wire.dev))]
    /\ UNCHANGED wireRest

\* head of the read loop: give up past the deadline, else call Read
WireLoop ==
    /\ wire.pc = "loop"
    /\ IF rev \in DeadlineRevs /\ wire.elapsed > atTimeout
       THEN WireReturn([resp |-> <<>>, err |-> "timeout"])
       ELSE wire' = [wire EXCEPT !.pc = "read"]
    /\ UNCHANGED wireRest

\* Read returned what was in the input buffer, after dt of waiting (no chunk
\* of the device holds white space, so the trimmed response is the response)
WireReadData ==
    /\ wire.pc = "read"
    /\ wire.buf # <<>>
    /\ \E dt \in 0..readTimeout :
         LET got == wire.resp \o wire.buf IN
         IF IsTerminal(TextOf(got))
         THEN wire' = [wire EXCEPT !.pc = "idle", !.buf = <<>>, !.resp = <<>>, !.elapsed = 0,
                                   !.ret = [resp |-> got, err |-> "none"]]
         ELSE wire' = [wire EXCEPT !.pc = "loop", !.buf = <<>>, !.resp = got,
                                   !.elapsed = Tick(@, dt)]
    /\ UNCHANGED wireRest

\* Read returned 0 bytes and io.EOF, nothing having arrived within the read
\* timeout: package modem goes to sleep errorSleep, package services returns
WireReadEOF ==
    /\ wire.pc = "read"
    /\ wire.buf = <<>>
    /\ IF rev \in DeadlineRevs
       THEN wire' = [wire EXCEPT !.pc = "sleep", !.elapsed = Tick(@, readTimeout)]
       ELSE IF wire.resp # <<>>
            THEN WireReturn([resp |-> wire.resp, err |-> "none"])
            ELSE WireReturn([resp |-> <<>>, err |-> "EOF"])
    /\ UNCHANGED wireRest

\* Read returned an error other than io.EOF: what has been accumulated is
\* returned as the response, or the error if there is nothing
WireReadErr ==
    /\ wire.pc = "read"
    /\ IF wire.resp # <<>>
       THEN WireReturn([resp |-> wire.resp, err |-> "none"])
       ELSE WireReturn([resp |-> <<>>, err |-> "io"])
    /\ UNCHANGED wireRest

\* time.Sleep(errorSleep) after io.EOF (package modem)
WireSleep ==
    /\ wire.pc = "sleep"
    /\ wire' = [wire EXCEPT !.pc = "loop", !.elapsed = Tick(@, errorSleep)]
    /\ UNCHANGED wireRest

InitWire == Init

NextWire ==
    \/ WireSend
    \/ WireArrive
    \/ WireLoop
    \/ WireReadData
    \/ WireReadEOF
    \/ WireReadErr
    \/ WireSleep

SpecWire == InitWire /\ [][NextWire]_vars

\* C38: the response an exchange returned holds only chunks the device sent
\* in answer to the command of that exchange.
C38_OnlyOwnReply ==
    (wire.pc = "idle" /\ wire.cmd > 0) =>
        \A i \in 1..Len(wire.ret.resp) : wire.ret.resp[i].of = wire.cmd

\* ------------------------------------------------ every call returns
\* One handler sends commands to the active session while its listener runs.
FairCaller == "a"

\* The scheduler runs every goroutine that can take a step and a Read
\* returns; a goroutine that waits for the session mutex is given it in the
\* end, as sync.Mutex hands the mutex over to a starving waiter.
FairChan ==
    /\ \A c \in {FairCaller} :
          /\ SF_vars(CmdLock(c))
          /\ WF_vars(CmdWrite(c))
          /\ WF_vars(CmdLoop(c))
          /\ WF_vars(CmdReadData(c) \/ CmdReadEOF(c) \/ CmdReadErr(c))
          /\ WF_vars(CmdSleep(c))
    /\ \A p \in Paths :
          /\ WF_vars(ListenerLock(p))
          /\ WF_vars(ListenerReadData(p) \/ ListenerReadErr(p))
          /\ WF_vars(ListenerSleep(p))
          /\ WF_vars(BroadcastBegin(p))
          /\ WF_vars(BroadcastEnd(p))

NextFair ==
    \/ GetService(FairCaller)
    \/ HandlerSend(FairCaller)
    \/ HandlerReject(FairCaller)
    \/ HandlerDone(FairCaller)
    \/ CmdLock(FairCaller)
    \/ CmdWrite(FairCaller)
    \/ CmdLoop(FairCaller)
    \/ CmdReadData(FairCaller)
    \/ CmdReadEOF(FairCaller)
    \/ CmdReadErr(FairCaller)
    \/ CmdSleep(FairCaller)
    \/ \E p \in Paths : ListenerLock(p)
    \/ \E p \in Paths : ListenerReadData(p)
    \/ \E p \in Paths : ListenerReadErr(p)
    \/ \E p \in Paths : ListenerSleep(p)
    \/ \E p \in Paths : BroadcastBegin(p)
    \/ \E p \in Paths : BroadcastEnd(p)

SpecFair == InitChan /\ [][NextFair]_vars /\ FairChan

\* C39: a handler that has called SendATCommand on the active session gets
\* the session mutex and its call returns.  The links followed deliver at
\* most MaxResp characters other than white space to one exchange and then
\* fall silent or fail.
C39_EveryCallReturns ==
    \A c \in Callers : (caller[c].pc = "cmd_lock") ~> (caller[c].pc = "cmd_done")

\* ----------------------------------------------------- HandleWebSocket
\* what HandleWebSocket leaves alone, the event bus apart
wsRest == <<rev, sms, codec, signal, ident, wire, poolVars, sLock, lst, caller>>

\* HandleWebSocket: the upgrade succeeded, Subscribe(100) makes the channel
\* and registers it under el.Lock(); cancel and conn.Close are deferred
HandleWebSocket(ch) ==
    /\ ws[ch].pc = "none"
    /\ elReaders = {}
    /\ chCap[ch] = 0
    /\ \A k \in Chans : k < ch => chCap[k] # 0
    /\ chCap' = [chCap EXCEPT ![ch] = Capacity(wsBuffer)]
    /\ elPool' = elPool \cup {ch}
    /\ ws' = [ws EXCEPT ![ch].pc = "range"]
    /\ UNCHANGED <<wsRest, elReaders, chBuf, chClosed, closes, cancels, chGot, chMiss,
                   parked, panicked>>

\* for msg := range ch: the next message is taken out of the channel
WsReceive(ch) ==
    /\ ws[ch].pc = "range"
    /\ chBuf[ch] # <<>>
    /\ chBuf' = [chBuf EXCEPT ![ch] = Tail(@)]
    /\ ws' = [ws EXCEPT ![ch].pc = "write"]
    /\ UNCHANGED <<wsRest, elPool, elReaders, chCap, chClosed, closes, cancels, chGot,
                   chMiss, parked, panicked>>

\* conn.WriteMessage: on a connection that has failed it returns an error and
\* the handler returns, else the loop goes on
WsWrite(ch) ==
    /\ ws[ch].pc = "write"
    /\ ws' = [ws EXCEPT ![ch].pc = IF ws[ch].connOk THEN "range" ELSE "defer"]
    /\ UNCHANGED <<wsRest, busVars>>

\* the first deferred call of a returning handler: cancel(), under el.Lock()
WsCancel(ch) ==
    /\ ws[ch].pc = "defer"
    /\ elReaders = {}
    /\ cancels' = Inc(cancels, ch)
    /\ IF ch \in elPool
       THEN /\ elPool' = elPool \ {ch}
            /\ Close(ch)
       ELSE UNCHANGED <<elPool, closes, chClosed, panicked>>
    /\ ws' = [ws EXCEPT ![ch].pc = "close"]
    /\ UNCHANGED <<wsRest, elReaders, chCap, chBuf, chGot, chMiss, parked>>

\* the second deferred call: conn.Close(), and the handler has returned
WsClose(ch) ==
    /\ ws[ch].pc = "close"
    /\ ws' = [ws EXCEPT ![ch].pc = "returned", ![ch].connOk = FALSE]
    /\ UNCHANGED <<wsRest, busVars>>

\* the connection to the client of the handler fails
ConnFail(ch) ==
    /\ ws[ch].pc \in {"range", "write"}
    /\ ws[ch].connOk
    /\ ws' = [ws EXCEPT ![ch].connOk = FALSE]
    /\ UNCHANGED <<wsRest, busVars>>

\* One active session with its listener, and the push handlers of the clients
\* that connect.
InitWs == Active({1})

NextWs ==
    \/ \E p \in Paths : ListenerLock(p)
    \/ \E p \in Paths : ListenerReadData(p)
    \/ \E p \in Paths : ListenerReadErr(p)
    \/ \E p \in Paths : ListenerSleep(p)
    \/ \E p \in Paths : BroadcastBegin(p)
    \/ \E p \in Paths : BroadcastSend(p)
    \/ \E p \in Paths : BroadcastEnd(p)
    \/ \E ch \in Chans : HandleWebSocket(ch)
    \/ \E ch \in Chans : WsReceive(ch)
    \/ \E ch \in Chans : WsWrite(ch)
    \/ \E ch \in Chans : WsCancel(ch)
    \/ \E ch \in Chans : WsClose(ch)
    \/ \E ch \in Chans : ConnFail(ch)

\* the scheduler runs every goroutine that can take a step
FairWs ==
    /\ FairListen
    /\ \A ch \in Chans :
          /\ WF_vars(WsReceive(ch))
          /\ WF_vars(WsWrite(ch))
          /\ WF_vars(WsCancel(ch))
          /\ WF_vars(WsClose(ch))

SpecWs == InitWs /\ [][NextWs]_vars /\ FairWs

\* the channel of a handler that has returned is out of el.pool and closed
ReleasedOnReturn ==
    \A ch \in Chans : ws[ch].pc = "returned" => (ch \notin elPool /\ chClosed[ch])

\* C40: the channel of a handler that has returned is no longer registered;
\* and a handler whose connection has failed returns, its channel released.
C40_HandlerReleasesQueue ==
    /\ []ReleasedOnReturn
    /\ \A ch \in Chans :
          (ws[ch].pc \in {"range", "write"} /\ ~ws[ch].connOk)
              ~> (ws[ch].pc = "returned" /\ ch \notin elPool)

====
